---------------------------- MODULE Spec2Model ----------------------------
(***************************************************************************)
(* Chardon product configurator: the range resolvers and the part-number   *)
(* assembler of app/product_selector_app.py, and the coverage audit of     *)
(* app/audit_data.py.                                                      *)
(*                                                                         *)
(* Text is a sequence of one-character strings, so that substring tests,   *)
(* upper(), strip() and join() are computed character by character.        *)
(* A table cell is a record [t, n, s]: a number, a text or NaN (the empty  *)
(* CSV cell as pandas reads it).                                           *)
(***************************************************************************)
EXTENDS Integers, Sequences, FiniteSets, TLC

VARIABLES
    v_str, v_ret,          \* _norm_voltage: its argument and what it returned
    DATA_DIR,              \* the csv files of the data folder
    loaded,                \* the tables a session holds in memory, call after call
    session_state,         \* st.session_state of the termination selector
    call, ret,             \* the last call of a resolver and what it returned
    data,                  \* the files bitola_to_od.csv and csto_selection_table.csv
    pc,                    \* where run_audit stands
    df_cabos, df_terms,    \* the frames run_audit read
    grupos,                \* the group keys the loop has still to visit
    lista_negra,           \* the findings so far
    escolhidas,            \* per group visited: its key, its median, the row chosen
    total_linhas_db, total_erros, total_acertos, taxa_acerto,
    report                 \* problematic_cables.csv, once written

auditVars == <<data, pc, df_cabos, df_terms, grupos, lista_negra, escolhidas,
               total_linhas_db, total_erros, total_acertos, taxa_acerto, report>>
vars == <<v_str, v_ret, DATA_DIR, loaded, session_state, call, ret, auditVars>>

(***************************************************************************)
(* Text                                                                    *)
(***************************************************************************)

\* The value of a variable that holds no result yet.
Unset == <<"<unset>">>

\* Python's `sub in s` on str: sub occurs in s as a contiguous run.
RECURSIVE StartsWith(_, _)
StartsWith(s, sub) ==
    IF sub = <<>> THEN TRUE
    ELSE IF s = <<>> THEN FALSE
    ELSE Head(s) = Head(sub) /\ StartsWith(Tail(s), Tail(sub))

RECURSIVE Contains(_, _)
Contains(s, sub) ==
    IF StartsWith(s, sub) THEN TRUE
    ELSE IF s = <<>> THEN FALSE
    ELSE Contains(Tail(s), sub)

(***************************************************************************)
(* audit_data.py: _norm_voltage                                            *)
(***************************************************************************)

kV15 == <<"1", "5", " ", "k", "V">>
kV25 == <<"2", "5", " ", "k", "V">>
kV35 == <<"3", "5", " ", "k", "V">>

\* The rule for "25" tried before the rule for "15".
NormVoltage25First(s) ==
    IF Contains(s, <<"2", "5">>) \/ Contains(s, <<"2", "4">>) \/ Contains(s, <<"2", "0">>)
    THEN kV25
    ELSE IF Contains(s, <<"1", "5">>) THEN kV15
    ELSE IF Contains(s, <<"3", "5">>) THEN kV35
    ELSE s

_norm_voltage(s) ==
    IF Contains(s, <<"1", "5">>) THEN kV15
    ELSE IF Contains(s, <<"2", "5">>) \/ Contains(s, <<"2", "4">>) \/ Contains(s, <<"2", "0">>)
    THEN kV25
    ELSE IF Contains(s, <<"3", "5">>) THEN kV35
    ELSE s

\* Cable voltage labels of the cable database, and "24 kV".
L_87_15 == <<"8", ".", "7", "/", "1", "5", " ", "k", "V">>
L_12_20 == <<"1", "2", "/", "2", "0", " ", "k", "V">>
L_15_25 == <<"1", "5", "/", "2", "5", " ", "k", "V">>
L_20_35 == <<"2", "0", "/", "3", "5", " ", "k", "V">>
L_24 == <<"2", "4", " ", "k", "V">>
L_35 == <<"3", "5", "k", "V">>
KnownLabels == {L_87_15, L_12_20, L_15_25, L_20_35, L_24, L_35, kV15, kV25, kV35}

\* The labels the normalizer is tried on: the known ones and every text of
\* at most MaxLabelLen characters over LabelChars.
MaxLabelLen == 4
LabelChars == {"0", "1", "2", "3", "4", "5", "k"}
TextsUpTo(chars, n) == UNION {[1..k -> chars] : k \in 0..n}
VoltageInputs == KnownLabels \cup TextsUpTo(LabelChars, MaxLabelLen)


NormVoltage ==
    /\ v_ret = Unset
    /\ v_ret' = _norm_voltage(v_str)
    /\ UNCHANGED <<v_str, DATA_DIR, session_state, loaded, call, ret, auditVars>>

(***************************************************************************)
(* Cells and data frames                                                   *)
(***************************************************************************)

NaN == [t |-> "nan", n |-> 0, s |-> <<>>]
None == [t |-> "none", n |-> 0, s |-> <<>>]
Num(n) == [t |-> "num", n |-> n, s |-> <<>>]
Txt(s) == [t |-> "str", n |-> 0, s |-> s]
IsNaN(c) == c.t = "nan"

Digits == <<"0", "1", "2", "3", "4", "5", "6", "7", "8", "9">>
IsDigit(ch) == \E i \in 1..Len(Digits) : Digits[i] = ch
DigitVal(ch) == (CHOOSE i \in 1..Len(Digits) : Digits[i] = ch) - 1

RECURSIVE ParseDigits(_, _)
ParseDigits(s, acc) ==
    IF s = <<>> THEN acc ELSE ParseDigits(Tail(s), acc * Len(Digits) + DigitVal(Head(s)))

\* str(n) of a non-negative integer.
RECURSIVE IntToText(_)
IntToText(n) ==
    IF n < Len(Digits) THEN <<Digits[n + 1]>>
    ELSE IntToText(n \div Len(Digits)) \o <<Digits[(n % Len(Digits)) + 1]>>

\* pd.to_numeric(..., errors="coerce") of one cell.
ToNumeric(c) ==
    IF c.t = "num" THEN c
    ELSE IF c.t = "str" /\ c.s # <<>> /\ \A i \in 1..Len(c.s) : IsDigit(c.s[i])
    THEN Num(ParseDigits(c.s, 0))
    ELSE NaN

\* str(cell)
CellText(c) ==
    IF c.t = "str" THEN c.s
    ELSE IF c.t = "num" THEN IntToText(c.n)
    ELSE <<"n", "a", "n">>

Whitespace == {" ", "\t", "\n", "\r"}

RECURSIVE LStrip(_, _)
LStrip(s, chars) ==
    IF s # <<>> /\ Head(s) \in chars THEN LStrip(Tail(s), chars) ELSE s

RECURSIVE RStrip(_, _)
RStrip(s, chars) ==
    IF s # <<>> /\ s[Len(s)] \in chars THEN RStrip(SubSeq(s, 1, Len(s) - 1), chars) ELSE s

\* str.strip() and str.strip(chars)
StripChars(s, chars) == RStrip(LStrip(s, chars), chars)
Strip(s) == StripChars(s, Whitespace)

\* a < b on cells: False as soon as one side is NaN.
CellLt(a, b) == a.t = "num" /\ b.t = "num" /\ a.n < b.n

\* Bounds that exclude their end points, where the code has a <= b.
CellLeExclusive(a, b) == CellLt(a, b)

\* A comparison that lets a value pass one unit beyond the bound.
CellLeWithinOne(a, b) == a.t = "num" /\ b.t = "num" /\ a.n <= b.n + 1

\* a <= b on cells: False as soon as one side is NaN.
CellLe(a, b) == a.t = "num" /\ b.t = "num" /\ a.n <= b.n

\* A data frame: its column names in file order, and its rows (column -> cell).
ColSet(df) == {df.cols[i] : i \in 1..Len(df.cols)}

\* df.rename(columns={old: new}, inplace=True)
RenameCol(df, old, new) ==
    IF old = new THEN df
    ELSE LET newcols == [i \in 1..Len(df.cols) |-> IF df.cols[i] = old THEN new ELSE df.cols[i]]
             names == {newcols[i] : i \in 1..Len(newcols)}
         IN  [cols |-> newcols,
              rows |-> [i \in 1..Len(df.rows) |->
                          [c \in names |-> df.rows[i][IF c = new THEN old ELSE c]]]]

\* df[col] = pd.to_numeric(df[col], errors="coerce")
ToNumericCol(df, col) ==
    [cols |-> df.cols,
     rows |-> [i \in 1..Len(df.rows) |->
                 [c \in ColSet(df) |-> IF c = col THEN ToNumeric(df.rows[i][c]) ELSE df.rows[i][c]]]]

\* df.dropna(subset=cols)
DropNa(df, subset) ==
    [cols |-> df.cols,
     rows |-> SelectSeq(df.rows, LAMBDA r : \A c \in subset : ~IsNaN(r[c]))]

(***************************************************************************)
(* product_selector_app.py: _norm and _rename_like                         *)
(***************************************************************************)

\* _norm of the column names that occur in the tables and alias lists:
\* lower case, everything but a-z0-9 removed.
_norm(c) ==
    CASE c \in {"min_mm", "min (mm)"} -> "minmm"
      [] c = "minimo_mm" -> "minimomm"
      [] c = "min diameter" -> "mindiameter"
      [] c = "diametro minimo (mm)" -> "diametrominimomm"
      [] c = "diametro_min_mm" -> "diametrominmm"
      [] c \in {"max_mm", "max (mm)"} -> "maxmm"
      [] c = "maximo_mm" -> "maximomm"
      [] c = "max diameter" -> "maxdiameter"
      [] c = "diametro maximo (mm)" -> "diametromaximomm"
      [] c = "diametro_max_mm" -> "diametromaxmm"
      [] c \in {"min_mm2", "min (mm2)", "min_mm^2"} -> "minmm2"
      [] c = "minimo_mm2" -> "minimomm2"
      [] c = "secao_min_mm2" -> "secaominmm2"
      [] c = "bitola_min_mm2" -> "bitolaminmm2"
      [] c \in {"max_mm2", "max (mm2)", "max_mm^2"} -> "maxmm2"
      [] c = "maximo_mm2" -> "maximomm2"
      [] c = "secao_max_mm2" -> "secaomaxmm2"
      [] c = "bitola_max_mm2" -> "bitolamaxmm2"
      [] c = "codigo_retorno" -> "codigoretorno"
      [] c = "range_code" -> "rangecode"
      [] c = "tsbc_code" -> "tsbccode"
      [] c = "tipo_condutor" -> "tipocondutor"
      [] c = "secao_mm2" -> "secaomm2"
      [] OTHER -> c

\* current[key]: the last column whose _norm is key.
CurrentCol(df, key) ==
    LET hits == {i \in 1..Len(df.cols) : _norm(df.cols[i]) = key}
    IN  df.cols[CHOOSE i \in hits : \A j \in hits : j <= i]

InCurrent(df, key) == \E c \in ColSet(df) : _norm(c) = key

_rename_like(df, canonical, aliases) ==
    LET found == {i \in 1..Len(aliases) : InCurrent(df, _norm(aliases[i]))}
    IN  IF found # {}
        THEN LET a == aliases[CHOOSE i \in found : \A j \in found : i <= j]
             IN  RenameCol(df, CurrentCol(df, _norm(a)), canonical)
        ELSE IF InCurrent(df, _norm(canonical)) /\ CurrentCol(df, _norm(canonical)) # canonical
        THEN RenameCol(df, CurrentCol(df, _norm(canonical)), canonical)
        ELSE df

(***************************************************************************)
(* product_selector_app.py: the resolvers                                  *)
(***************************************************************************)

ERR == <<"E", "R", "R">>
ER == <<"E", "R">>
NA == <<"N", "A">>
N_A == <<"N", "/", "A">>
\* An uncaught exception leaves the function.
KeyError == <<"<KeyError>">>

InDb(tables, name) == name \in DOMAIN tables

\* The first of the rows numbered in found, in table order; 0 when there is
\* none.
FirstRow(found) ==
    IF found = {} THEN 0 ELSE CHOOSE i \in found : \A j \in found : i <= j

\* Lines 160-184: the table the call reads.
alias_redirects(name) ==
    IF name = "opcoes_range_cabo_15kv_600a" THEN "opcoes_range_cabo_25kv_600a" ELSE ""

alternative_candidates(name) ==
    IF name = "opcoes_range_cabo_iec_36kv_400a"
    THEN <<"options_range_cable_iec_36kv_400a", "option_range_cable_iec_36kv_400a",
           "options_range_cable_iec_36kV_400A", "option_range_cable_iec_36kV_400A">>
    ELSE <<>>

RangeTableName(voltage, current, tables, table_basename) ==
    LET t0 == IF table_basename # "" THEN table_basename
              ELSE IF current >= 600
              THEN "opcoes_range_cabo_" \o ToString(voltage) \o "kv_600a"
              ELSE "opcoes_range_cabo_" \o ToString(voltage) \o "kv"
        t1 == IF ~InDb(tables, t0) /\ alias_redirects(t0) # "" /\ InDb(tables, alias_redirects(t0))
              THEN alias_redirects(t0) ELSE t0
        alts == alternative_candidates(t1)
        present == {i \in 1..Len(alts) : InDb(tables, alts[i])}
    IN  IF ~InDb(tables, t1) /\ present # {}
        THEN alts[CHOOSE i \in present : \A j \in present : i <= j]
        ELSE t1

\* Lines 191-248: the column aliases of a range table.
RangeRenamed(df) ==
    LET d1 == _rename_like(df, "min_mm",
                <<"min_mm", "min (mm)", "minimo_mm", "min diameter",
                  "diametro minimo (mm)", "diametro_min_mm">>)
        d2 == _rename_like(d1, "max_mm",
                <<"max_mm", "max (mm)", "maximo_mm", "max diameter",
                  "diametro maximo (mm)", "diametro_max_mm">>)
        d3 == _rename_like(d2, "min_mm2",
                <<"min_mm2", "min (mm2)", "min_mm^2", "minimo_mm2",
                  "secao_min_mm2", "bitola_min_mm2">>)
        d4 == _rename_like(d3, "max_mm2",
                <<"max_mm2", "max (mm2)", "max_mm^2", "maximo_mm2",
                  "secao_max_mm2", "bitola_max_mm2">>)
    IN  _rename_like(d4, "codigo_retorno",
                <<"codigo_retorno", "codigo", "code", "range_code">>)

\* Lines 277-290: the scan of the rows.
RangeScan(df, min_col, max_col, comparison_value) ==
    LET d1 == ToNumericCol(ToNumericCol(df, min_col), max_col)
        d2 == DropNa(d1, {min_col, max_col, "codigo_retorno"})
        i == FirstRow({k \in 1..Len(d2.rows) :
                        /\ CellLe(d2.rows[k][min_col], comparison_value)
                        /\ CellLe(comparison_value, d2.rows[k][max_col])})
    IN  IF i = 0 THEN N_A ELSE Strip(CellText(d2.rows[i]["codigo_retorno"]))

find_cable_range_code(diameter, voltage, current, tables, table_basename, cross_section_mm2) ==
    LET table_name == RangeTableName(voltage, current, tables, table_basename)
    IN  IF ~InDb(tables, table_name) THEN ERR
        ELSE
        LET df_range == RangeRenamed(tables[table_name])
            has_diameter_bounds == {"min_mm", "max_mm"} \subseteq ColSet(df_range)
            has_cross_section_bounds == {"min_mm2", "max_mm2"} \subseteq ColSet(df_range)
        IN  IF "codigo_retorno" \notin ColSet(df_range) THEN ERR
            ELSE IF ~has_diameter_bounds /\ ~has_cross_section_bounds THEN ERR
            ELSE IF has_cross_section_bounds /\ ~has_diameter_bounds
            THEN IF cross_section_mm2 = None THEN ERR
                 ELSE RangeScan(df_range, "min_mm2", "max_mm2", cross_section_mm2)
            ELSE RangeScan(df_range, "min_mm", "max_mm", Num(diameter))

find_shear_bolt_lug(cond_size, tables, table_name) ==
    LET tn == IF table_name # "" THEN table_name ELSE "opcoes_shear_bolt_v1"
    IN  IF ~InDb(tables, tn) THEN ER
        ELSE
        LET d0 == tables[tn]
            d1 == IF "min_mm2" \in ColSet(d0) THEN ToNumericCol(d0, "min_mm2") ELSE d0
            df_shear == IF "max_mm2" \in ColSet(d1) THEN ToNumericCol(d1, "max_mm2") ELSE d1
        IN  IF df_shear.rows = <<>> THEN N_A
            ELSE IF ~({"min_mm2", "max_mm2"} \subseteq ColSet(df_shear)) THEN KeyError
            ELSE LET i == FirstRow({k \in 1..Len(df_shear.rows) :
                            /\ CellLe(df_shear.rows[k]["min_mm2"], Num(cond_size))
                            /\ CellLe(Num(cond_size), df_shear.rows[k]["max_mm2"])})
                 IN  IF i = 0 THEN N_A
                     ELSE IF "codigo_retorno" \notin ColSet(df_shear) THEN KeyError
                     ELSE CellText(df_shear.rows[i]["codigo_retorno"])

\* Raised by int() of a cell that holds no integer.
ValueError == <<"<ValueError>">>

\* The first name of candidates that is in tables, else candidates[1] (line 337, 390).
FirstPresent(candidates, tables) ==
    LET present == {i \in 1..Len(candidates) : InDb(tables, candidates[i])}
    IN  IF present = {} THEN candidates[1]
        ELSE candidates[CHOOSE i \in present : \A j \in present : i <= j]

\* A rendering that pads nothing.
NoFill(s, width) == s

\* str.zfill(width)
RECURSIVE zfill(_, _)
zfill(s, width) == IF Len(s) >= width THEN s ELSE zfill(<<"0">> \o s, width)

\* Lines 292-302: the conductor code of a table keyed by type and section,
\* as a zero-padded numeral.
ConductorCode(table, cond_type, cond_size, tables, width) ==
    IF ~InDb(tables, table) THEN ER
    ELSE LET df_cond == tables[table]
         IN  IF ~({"tipo_condutor", "secao_mm2"} \subseteq ColSet(df_cond)) THEN KeyError
             ELSE LET i == FirstRow({k \in 1..Len(df_cond.rows) :
                            /\ df_cond.rows[k]["tipo_condutor"] = Txt(cond_type)
                            /\ df_cond.rows[k]["secao_mm2"] = Num(cond_size)})
                  IN  IF i = 0 THEN NA
                      ELSE IF "codigo_retorno" \notin ColSet(df_cond) THEN KeyError
                      ELSE LET code == ToNumeric(df_cond.rows[i]["codigo_retorno"])
                           IN  IF IsNaN(code) THEN ValueError
                               ELSE zfill(IntToText(code.n), width)

find_conductor_code_200a(cond_type, cond_size, tables) ==
    ConductorCode("opcoes_condutores_v1", cond_type, cond_size, tables, 2)

find_compression_lug_600a(cond_type, cond_size, tables) ==
    ConductorCode("opcoes_condutores_600a_v1", cond_type, cond_size, tables, 4)

find_tsbc_lug_iec_36kv_400a(cond_size, tables) ==
    LET table_name == FirstPresent(<<"opcoes_lugs_tsbc_iec_36kv_400a",
                                     "options_lugs_tsbc_iec_36kv_400a",
                                     "options_lugs_iec_36kv_400a">>, tables)
    IN  IF ~InDb(tables, table_name) THEN ER
        ELSE
        LET d1 == _rename_like(tables[table_name], "codigo_retorno",
                    <<"codigo_retorno", "codigo", "code", "tsbc_code">>)
            d2 == _rename_like(d1, "min_mm2",
                    <<"min_mm2", "min (mm2)", "minimo_mm2", "secao_min_mm2", "bitola_min_mm2">>)
            d3 == _rename_like(d2, "max_mm2",
                    <<"max_mm2", "max (mm2)", "maximo_mm2", "secao_max_mm2", "bitola_max_mm2">>)
            d4 == IF "min_mm2" \in ColSet(d3) THEN ToNumericCol(d3, "min_mm2") ELSE d3
            df == IF "max_mm2" \in ColSet(d4) THEN ToNumericCol(d4, "max_mm2") ELSE d4
        IN  IF ~({"min_mm2", "max_mm2", "codigo_retorno"} \subseteq ColSet(df)) THEN ER
            ELSE LET kept == DropNa(df, {"min_mm2", "max_mm2", "codigo_retorno"})
                     i == FirstRow({k \in 1..Len(kept.rows) :
                            /\ CellLe(kept.rows[k]["min_mm2"], Num(cond_size))
                            /\ CellLe(Num(cond_size), kept.rows[k]["max_mm2"])})
                 IN  IF i = 0 THEN N_A ELSE Strip(CellText(kept.rows[i]["codigo_retorno"]))

\* cond_type is <<>> for None.
find_conductor_code_iec_400a(cond_type, cond_size, tables) ==
    LET table_name == FirstPresent(<<"opcoes_condutores_iec_400a_v1",
                                     "opcoes_condutores_iec_400a",
                                     "options_condutores_iec_400a_v1">>, tables)
    IN  IF ~InDb(tables, table_name) THEN NA
        ELSE
        LET d0 == tables[table_name]
            df == IF "secao_mm2" \in ColSet(d0) THEN ToNumericCol(d0, "secao_mm2") ELSE d0
            by_size == IF "secao_mm2" \in ColSet(df)
                       THEN SelectSeq(df.rows, LAMBDA r : r["secao_mm2"] = Num(cond_size))
                       ELSE df.rows
            candidates == IF cond_type # <<>> /\ "tipo_condutor" \in ColSet(df)
                          THEN SelectSeq(by_size, LAMBDA r : r["tipo_condutor"] = Txt(cond_type))
                          ELSE by_size
        IN  IF candidates = <<>> THEN NA
            ELSE IF "codigo_retorno" \notin ColSet(df) THEN NA
            ELSE IF IsNaN(candidates[1]["codigo_retorno"]) THEN NA
            ELSE Strip(CellText(candidates[1]["codigo_retorno"]))

(***************************************************************************)
(* product_selector_app.py: _hifen_join and _materialize_tsbc              *)
(***************************************************************************)

LowerLetters == <<"a", "b", "c", "d", "e", "f", "g", "h", "i", "j", "k", "l", "m",
                  "n", "o", "p", "q", "r", "s", "t", "u", "v", "w", "x", "y", "z">>
UpperLetters == <<"A", "B", "C", "D", "E", "F", "G", "H", "I", "J", "K", "L", "M",
                  "N", "O", "P", "Q", "R", "S", "T", "U", "V", "W", "X", "Y", "Z">>

UpperChar(ch) ==
    IF \E i \in 1..Len(LowerLetters) : LowerLetters[i] = ch
    THEN UpperLetters[CHOOSE i \in 1..Len(LowerLetters) : LowerLetters[i] = ch]
    ELSE ch

\* str.upper()
Upper(s) == [i \in 1..Len(s) |-> UpperChar(s[i])]

Sentinels == {NA, N_A, ER, ERR}

\* separator.join(parts)
RECURSIVE Join(_, _)
Join(sep, parts) ==
    IF parts = <<>> THEN <<>>
    ELSE IF Len(parts) = 1 THEN parts[1]
    ELSE parts[1] \o sep \o Join(sep, Tail(parts))

\* The parts kept by line 411, before they are stripped of hyphens.
KeptParts(parts) == SelectSeq(parts, LAMBDA p : p # <<>> /\ Upper(p) \notin Sentinels)

\* Keeps every non-empty part, the sentinels too.
HifenJoinNoFilter(parts) ==
    LET kept == SelectSeq(parts, LAMBDA p : p # <<>>)
    IN  Join(<<"-">>, [i \in 1..Len(kept) |-> StripChars(kept[i], {"-"})])

_hifen_join(parts) ==
    LET kept == KeptParts(parts)
    IN  Join(<<"-">>, [i \in 1..Len(kept) |-> StripChars(kept[i], {"-"})])

\* str.replace(old, new, 1)
RECURSIVE ReplaceFirst(_, _, _)
ReplaceFirst(s, old, new) ==
    IF StartsWith(s, old) /\ old # <<>> THEN new \o SubSeq(s, Len(old) + 1, Len(s))
    ELSE IF s = <<>> THEN s
    ELSE <<Head(s)>> \o ReplaceFirst(Tail(s), old, new)

TSBC == <<"T", "S", "B", "C">>

_materialize_tsbc(base_code, material_code) ==
    IF base_code = <<>> \/ Upper(base_code) \in Sentinels THEN base_code
    ELSE LET normalized == Strip(base_code)
         IN  IF StartsWith(Upper(normalized), TSBC)
             THEN ReplaceFirst(normalized, TSBC, TSBC \o <<"-">> \o material_code)
             ELSE material_code \o <<"-">> \o normalized

(***************************************************************************)
(* The tables of a run                                                     *)
(***************************************************************************)

\* Bounds and measurements range over 1..MaxBound; a table has at most
\* MaxRows rows.
MaxBound == 3
MaxRows == 2
Measures == 1..MaxBound

\* The return code of the i-th row of a table: "A", "B", "C", ...
CodeAt(i) == Txt(<<UpperLetters[i]>>)

\* The shapes of a row of a range table: every pair of numeric bounds in
\* order, a row with its bounds swapped, a row with an empty lower bound, a
\* row whose lower bound was read as text, and a row with an empty return code.
RowShapes ==
    {[lo |-> Num(p[1]), hi |-> Num(p[2]), coded |-> TRUE] :
        p \in {q \in Measures \X Measures : q[1] <= q[2]}}
    \cup {[lo |-> Num(MaxBound), hi |-> Num(1), coded |-> TRUE],
          [lo |-> NaN, hi |-> Num(MaxBound), coded |-> TRUE],
          [lo |-> Txt(<<"2">>), hi |-> Num(MaxBound), coded |-> TRUE],
          [lo |-> Num(1), hi |-> Num(MaxBound), coded |-> FALSE]}

RowSeqs == UNION {[1..k -> RowShapes] : k \in 0..MaxRows}

\* A schema names the columns of a file, in order, and the field each holds.
SchemaMm == <<<<"min_mm", "lo">>, <<"max_mm", "hi">>, <<"codigo_retorno", "code">>>>
SchemaMm2 == <<<<"min_mm2", "lo">>, <<"max_mm2", "hi">>, <<"codigo_retorno", "code">>>>
SchemaAlias == <<<<"code", "code">>, <<"min (mm)", "lo">>, <<"max (mm)", "hi">>>>
SchemaNoCode == <<<<"min_mm", "lo">>, <<"max_mm", "hi">>>>
SchemaNoBounds == <<<<"codigo_retorno", "code">>>>
Schemas == {SchemaMm, SchemaMm2, SchemaAlias, SchemaNoCode, SchemaNoBounds}

FieldOf(schema, col) == schema[CHOOSE i \in 1..Len(schema) : schema[i][1] = col][2]

RowCell(shape, k, field) ==
    IF field = "lo" THEN shape.lo
    ELSE IF field = "hi" THEN shape.hi
    ELSE IF shape.coded THEN CodeAt(k) ELSE NaN

RangeFrame(schema, shapes) ==
    [cols |-> [i \in 1..Len(schema) |-> schema[i][1]],
     rows |-> [k \in 1..Len(shapes) |->
                 [c \in {schema[i][1] : i \in 1..Len(schema)} |->
                     RowCell(shapes[k], k, FieldOf(schema, c))]]]

Cu == <<"C", "u">>
Al == <<"A", "l">>
CondTypes == {Cu, Al}

CondFrame(rows) ==
    [cols |-> <<"tipo_condutor", "secao_mm2", "codigo_retorno">>,
     rows |-> [k \in 1..Len(rows) |->
                 [c \in {"tipo_condutor", "secao_mm2", "codigo_retorno"} |->
                     IF c = "tipo_condutor" THEN Txt(rows[k][1])
                     ELSE IF c = "secao_mm2" THEN Num(rows[k][2])
                     ELSE rows[k][3]]]]

\* The return codes of the conductor tables: one and two digits, three and
\* five digits, and an empty cell.
CondCodes == {Num(3), Num(12), Num(100), Num(12345), NaN}

\* The conductor tables that vary: at most MaxRows rows, of copper of section
\* 1 under each return code, or of aluminium of section 2.
CondRowSeqs ==
    UNION {[1..k -> {<<Cu, 1, c>> : c \in CondCodes} \cup {<<Al, 2, Num(12)>>}] :
            k \in 0..MaxRows}

\* The conductor tables of the runs that vary the range tables.
CondRows0 == <<<<Cu, 1, Num(3)>>, <<Al, 2, Num(12)>>>>
IecCondRows0 == <<<<Cu, 1, Txt(<<"K", "1">>)>>, <<Al, 2, Txt(<<"K", "2">>)>>>>
RangeRows0 ==
    <<[lo |-> Num(1), hi |-> Num(1), coded |-> TRUE],
      [lo |-> Num(MaxBound), hi |-> Num(MaxBound), coded |-> TRUE]>>

RangeNamesMm == {"opcoes_range_cabo_15kv", "opcoes_range_cabo_15kv_600a",
                 "opcoes_range_cabo_25kv_600a"}
RangeNamesMm2 == {"opcoes_range_cabo_iec_36kv_400a", "options_range_cable_iec_36kv_400a"}
LugNames == {"opcoes_shear_bolt_v1", "opcoes_shear_bolt_tb15_25",
             "opcoes_lugs_tsbc_iec_36kv_400a", "options_lugs_tsbc_iec_36kv_400a"}
CondNames == {"opcoes_condutores_v1", "opcoes_condutores_600a_v1"}
IecCondNames == {"opcoes_condutores_iec_400a_v1", "opcoes_condutores_iec_400a",
                 "options_condutores_iec_400a_v1"}
TsbcNames == {"opcoes_lugs_tsbc_iec_36kv_400a", "options_lugs_tsbc_iec_36kv_400a"}
TableNames == RangeNamesMm \cup RangeNamesMm2 \cup LugNames \cup CondNames \cup IecCondNames

\* The TSBC lug tables list codes "TSBCA", "TSBCB", ...
TsbcCodes(df) ==
    [cols |-> df.cols,
     rows |-> [i \in 1..Len(df.rows) |->
                 [c \in ColSet(df) |->
                     IF c = "codigo_retorno" /\ df.rows[i][c].t = "str"
                     THEN Txt(TSBC \o df.rows[i][c].s) ELSE df.rows[i][c]]]]

\* bitola_to_od.csv and the termination tables csto_selection_table.csv and
\* csti_selection_table.csv.
CableCols == <<"Cable Voltage", "S_mm2", "Brand", "Cable", "OD_iso_mm">>
TermCols == <<"Voltage Class", "Part Number", "OD Min (mm)", "OD Max (mm)">>

Cable(voltage, s, od, name) ==
    [c \in {CableCols[i] : i \in 1..Len(CableCols)} |->
        IF c = "Cable Voltage" THEN voltage
        ELSE IF c = "S_mm2" THEN s
        ELSE IF c = "OD_iso_mm" THEN od
        ELSE IF c = "Brand" THEN Txt(<<"brand">>)
        ELSE Txt(<<ToString(name)>>)]

Term(class, od_min, od_max) ==
    [c \in {TermCols[i] : i \in 1..Len(TermCols)} |->
        IF c = "Voltage Class" THEN Txt(class)
        ELSE IF c = "OD Min (mm)" THEN Num(od_min)
        ELSE IF c = "OD Max (mm)" THEN Num(od_max)
        ELSE Txt(<<"CSTO">>)]

\* The rows of a cable file: the cable of row i is named i.
CableRows(shapes) ==
    [k \in 1..Len(shapes) |-> Cable(shapes[k][1], shapes[k][2], shapes[k][3], k)]

\* Lines 96-111, on a file that names its columns canonically (the renames
\* change nothing): the section and the diameter as numbers.
_normalize_bitola_to_od(df) ==
    [cols |-> df.cols,
     rows |-> [i \in 1..Len(df.rows) |->
                 [c \in ColSet(df) |->
                     IF c \in {"S_mm2", "OD_iso_mm", "D_cond_mm", "T_iso_mm"}
                     THEN ToNumeric(df.rows[i][c])
                     ELSE df.rows[i][c]]]]

\* connector_selection_table.csv: the lugs of the terminations.
ConnCols ==
    <<"Type", "Material", "Conductor Min (mm2)", "Conductor Max (mm2)", "Part Number">>

Compression == <<"C", "o", "m", "p", "r", "e", "s", "s", "i", "o", "n">>
ShearBolt == <<"S", "h", "e", "a", "r", "-", "B", "o", "l", "t">>

\* The rows of the connector file: two copper compression lugs of the same
\* span side by side, a third with the window of the first, an aluminium
\* one, a shear-bolt lug without material, and a lug whose lower bound is
\* not a number.
ConnShapes ==
    {<<Txt(Compression), Txt(Cu), Num(1), Num(2), "P1">>,
     <<Txt(Compression), Txt(Cu), Num(2), Num(3), "P2">>,
     <<Txt(Compression), Txt(Cu), Num(1), Num(2), "P3">>,
     <<Txt(Compression), Txt(Al), Num(2), Num(2), "P4">>,
     <<Txt(ShearBolt), NaN, Num(1), Num(3), "P5">>,
     <<Txt(Compression), Txt(Cu), Txt(<<"x">>), Num(2), "P6">>}

ConnRowSeqs == UNION {[1..k -> ConnShapes] : k \in 0..MaxRows}

ConnFrame(rows) ==
    [cols |-> ConnCols,
     rows |-> [k \in 1..Len(rows) |->
                 [c \in {ConnCols[i] : i \in 1..Len(ConnCols)} |->
                     IF c = "Type" THEN rows[k][1]
                     ELSE IF c = "Material" THEN rows[k][2]
                     ELSE IF c = "Conductor Min (mm2)" THEN rows[k][3]
                     ELSE IF c = "Conductor Max (mm2)" THEN rows[k][4]
                     ELSE Txt(<<rows[k][5]>>)]]]

\* astype(str) of a cell
AsStr(c) == Txt(CellText(c))

\* Lines 114-125, on a file that names its columns canonically (the renames
\* change nothing): Type and Material as text, the bounds as numbers.
_normalize_connector_table(df) ==
    [cols |-> df.cols,
     rows |-> [i \in 1..Len(df.rows) |->
                 [c \in ColSet(df) |->
                     IF c \in {"Type", "Material"} THEN AsStr(df.rows[i][c])
                     ELSE IF c \in {"Conductor Min (mm2)", "Conductor Max (mm2)"}
                     THEN ToNumeric(df.rows[i][c])
                     ELSE df.rows[i][c]]]]

\* A data folder holds the files named `present`, the diameter range tables
\* laid out by `schema`, every range and lug table holding the rows `shapes`;
\* `cond` are the rows of its conductor tables, `conn` those of its
\* connector table, `cabos` the cables of bitola_to_od and `terms` the rows
\* of its termination tables.
Folder(present, schema, shapes) ==
    [present |-> present, schema |-> schema, shapes |-> shapes, cond |-> CondRows0,
     conn |-> <<>>, cabos |-> <<>>, terms |-> <<>>]
NoFiles == Folder({}, SchemaMm, <<>>)

\* Lines 131-143: every csv file of the folder, read under its stem, the
\* cable and the connector table normalized.
load_database(dir) ==
    [name \in dir.present |->
        IF name \in RangeNamesMm THEN RangeFrame(dir.schema, dir.shapes)
        ELSE IF name \in TsbcNames THEN TsbcCodes(RangeFrame(SchemaMm2, dir.shapes))
        ELSE IF name \in RangeNamesMm2 \cup LugNames THEN RangeFrame(SchemaMm2, dir.shapes)
        ELSE IF name \in CondNames THEN CondFrame(dir.cond)
        ELSE IF name = "connector_selection_table"
        THEN _normalize_connector_table(ConnFrame(dir.conn))
        ELSE IF name = "bitola_to_od"
        THEN _normalize_bitola_to_od([cols |-> CableCols, rows |-> CableRows(dir.cabos)])
        ELSE IF name \in {"csto_selection_table", "csti_selection_table"}
        THEN [cols |-> TermCols, rows |-> dir.terms]
        ELSE CondFrame(IecCondRows0)]

\* Data folders: every table present and the rows varied; the layout of the
\* range tables varied; up to two files missing, or all of them; the conductor
\* tables varied.
DataDirs ==
    {Folder(TableNames, SchemaMm, shapes) : shapes \in RowSeqs}
    \cup {Folder(TableNames, schema, RangeRows0) : schema \in Schemas}
    \cup {Folder(TableNames \ {m1, m2}, SchemaMm, RangeRows0) : m1, m2 \in TableNames}
    \cup {Folder({}, SchemaMm, RangeRows0)}
    \cup {[Folder(TableNames, SchemaMm, RangeRows0) EXCEPT !.cond = rows] : rows \in CondRowSeqs}

\* Range rows for the configurator: none, two disjoint points, a wide row
\* before a narrow one, and a row without a return code.
ConfigRows ==
    {<<>>, RangeRows0,
     <<[lo |-> Num(1), hi |-> Num(MaxBound), coded |-> TRUE],
       [lo |-> Num(2), hi |-> Num(2), coded |-> TRUE]>>,
     <<[lo |-> Num(1), hi |-> Num(MaxBound), coded |-> FALSE]>>}

\* Data folders of the configurator: the rows above, with every table loaded
\* or with up to two files missing.
ConfigDataDirs ==
    {Folder(TableNames \ {m1, m2}, SchemaMm, shapes) :
        m1, m2 \in TableNames, shapes \in ConfigRows}

\* Line 800: the tables the page works on.
db == load_database(DATA_DIR)

NoCall == [fn |-> "none"]


(***************************************************************************)
(* Calls of the resolvers                                                  *)
(***************************************************************************)

\* Each call below is the first call of its run: the resolvers read db and
\* write nothing, so a run of several calls reaches no other state.
\* The argument shapes the configurator calls find_cable_range_code with:
\* (voltage, current, table_basename); lines 525, 573, 658.
RangeCallShapes ==
    {<<15, 200, "">>, <<15, 600, "">>, <<36, 400, "opcoes_range_cabo_iec_36kv_400a">>}

CallFindCableRangeCode ==
    \E diameter \in Measures, shape \in RangeCallShapes,
       cross_section_mm2 \in {None} \cup {Num(x) : x \in Measures} :
        /\ call = NoCall
        /\ shape[3] = "" => cross_section_mm2 = None
        /\ call' = [fn |-> "find_cable_range_code", diameter |-> diameter,
                    voltage |-> shape[1], current |-> shape[2],
                    table_basename |-> shape[3], cross_section_mm2 |-> cross_section_mm2]
        /\ ret' = find_cable_range_code(diameter, shape[1], shape[2], db, shape[3],
                                        cross_section_mm2)
        /\ UNCHANGED <<DATA_DIR, session_state, loaded, v_str, v_ret, auditVars>>

CallFindShearBoltLug ==
    \E cond_size \in Measures, table_name \in {"", "opcoes_shear_bolt_tb15_25"} :
        /\ call = NoCall
        /\ call' = [fn |-> "find_shear_bolt_lug", cond_size |-> cond_size,
                    table_name |-> table_name]
        /\ ret' = find_shear_bolt_lug(cond_size, db, table_name)
        /\ UNCHANGED <<DATA_DIR, session_state, loaded, v_str, v_ret, auditVars>>

CallFindConductorCode200a ==
    \E cond_type \in CondTypes, cond_size \in Measures :
        /\ call = NoCall
        /\ call' = [fn |-> "find_conductor_code_200a", cond_type |-> cond_type,
                    cond_size |-> cond_size]
        /\ ret' = find_conductor_code_200a(cond_type, cond_size, db)
        /\ UNCHANGED <<DATA_DIR, session_state, loaded, v_str, v_ret, auditVars>>

CallFindCompressionLug600a ==
    \E cond_type \in CondTypes, cond_size \in Measures :
        /\ call = NoCall
        /\ call' = [fn |-> "find_compression_lug_600a", cond_type |-> cond_type,
                    cond_size |-> cond_size]
        /\ ret' = find_compression_lug_600a(cond_type, cond_size, db)
        /\ UNCHANGED <<DATA_DIR, session_state, loaded, v_str, v_ret, auditVars>>

CallFindTsbcLug ==
    \E cond_size \in Measures :
        /\ call = NoCall
        /\ call' = [fn |-> "find_tsbc_lug_iec_36kv_400a", cond_size |-> cond_size]
        /\ ret' = find_tsbc_lug_iec_36kv_400a(cond_size, db)
        /\ UNCHANGED <<DATA_DIR, session_state, loaded, v_str, v_ret, auditVars>>

CallFindConductorCodeIec400a ==
    \E cond_type \in CondTypes \cup {<<>>}, cond_size \in Measures :
        /\ call = NoCall
        /\ call' = [fn |-> "find_conductor_code_iec_400a", cond_type |-> cond_type,
                    cond_size |-> cond_size]
        /\ ret' = find_conductor_code_iec_400a(cond_type, cond_size, db)
        /\ UNCHANGED <<DATA_DIR, session_state, loaded, v_str, v_ret, auditVars>>

(***************************************************************************)
(* product_selector_app.py: render_separable_connector_configurator        *)
(***************************************************************************)

\* The labels of the "Connector Type" radio of the 200 A elbow (line 519).
OptNone == <<"N", "o", "n", "e">>
OptCopper == <<"C", "o", "p", "p", "e", "r", " ", "(", "Z", " ", "=", " ", "C", ")">>
OptBimetal == <<"B", "i", "-", "m", "e", "t", "a", "l", " ", "(", "Z", " ", "=", " ", "B", ")">>
ConnectorMaterials == {OptNone, OptCopper, OptBimetal}
TinnedCopper == <<"T", "i", "n", "n", "e", "d", " ", "C", "o", "p", "p", "e", "r">>
Bimetal == <<"B", "i", "-", "m", "e", "t", "a", "l">>

\* Line 601.
DEFAULT_IEC_SIZES == <<25, 35, 50, 70, 95, 120, 150, 185, 240, 300, 400>>

\* codigo_base of the selected product: a catalog base code, or none.
BaseCode == <<"1", "5", "-", "L", "E", "2", "0", "0">>
BaseCodes == {BaseCode, <<>>}

\* The options of the "Conductor Type" select box: the types of the table,
\* or None (<<>>) when it lists none.
Tipos(df) ==
    LET found == {df.rows[i]["tipo_condutor"].s :
                    i \in {j \in 1..Len(df.rows) : df.rows[j]["tipo_condutor"].t = "str"}}
    IN  IF found = {} THEN {<<>>} ELSE found

\* The options of "Conductor Cross Section": the sections the table lists for
\* the type, or, when it lists none, the number typed in by hand.
Tamanhos(df, tipo_cond) ==
    LET found == {df.rows[i]["secao_mm2"].n :
                    i \in {j \in 1..Len(df.rows) :
                            /\ df.rows[j]["tipo_condutor"] = Txt(tipo_cond)
                            /\ df.rows[j]["secao_mm2"].t = "num"}}
    IN  IF found = {} THEN Measures ELSE found

IsRaised(x) == x \in {KeyError, ValueError}

\* What a branch leaves on the page: the codes the resolvers returned, the
\* arguments of each _hifen_join and the part numbers shown. A branch that
\* returns early or raises shows no part number.
Page(codes, parts, raised) ==
    [codes |-> codes,
     parts |-> IF raised THEN <<>> ELSE parts,
     part_numbers |-> IF raised THEN <<>> ELSE [i \in 1..Len(parts) |-> _hifen_join(parts[i])],
     raised |-> raised]

\* Lines 488-539.
RenderElbow200A ==
    \E base_code \in BaseCodes, d_iso \in Measures, deadbreak \in BOOLEAN,
       add_test_point \in BOOLEAN, connector_material \in ConnectorMaterials :
        /\ call = NoCall
        /\ \E tables \in {db} :
           IF ~InDb(tables, "opcoes_condutores_v1")
           THEN /\ call' = [fn |-> "elbow_200a", base_code |-> base_code]
                /\ ret' = Page(<<>>, <<>>, FALSE)
           ELSE \E tipo_cond \in Tipos(tables["opcoes_condutores_v1"]) :
                \E secao \in Tamanhos(tables["opcoes_condutores_v1"], tipo_cond) :
                \E v_int \in {15}, i_int \in {200} :
                \E table_base \in {IF deadbreak
                                    THEN "opcoes_range_cabo_" \o ToString(v_int) \o "kv_deadbreak"
                                    ELSE ""} :
                \E range_code \in {find_cable_range_code(d_iso, v_int, i_int, tables,
                                                          table_base, None)},
                   cond_code \in {find_conductor_code_200a(tipo_cond, secao, tables)},
                   w_code \in {IF add_test_point THEN <<"T">> ELSE <<>>},
                   z_code \in {IF StartsWith(connector_material, TinnedCopper) THEN <<"C">>
                               ELSE IF StartsWith(connector_material, Bimetal) THEN <<"B">>
                               ELSE <<>>} :
                        /\ call' = [fn |-> "elbow_200a", base_code |-> base_code,
                                    d_iso |-> d_iso, deadbreak |-> deadbreak,
                                    tipo_cond |-> tipo_cond, secao |-> secao,
                                    add_test_point |-> add_test_point,
                                    connector_material |-> connector_material]
                        /\ ret' = Page(<<range_code, cond_code>>,
                                       <<<<base_code, w_code, range_code, cond_code, z_code>>>>,
                                       IsRaised(cond_code))
        /\ UNCHANGED <<DATA_DIR, session_state, loaded, v_str, v_ret, auditVars>>

\* Lines 542-589.
RenderTBody600A ==
    \E base_code \in BaseCodes, d_iso \in Measures, v_int \in {15, 35},
       add_test_point \in BOOLEAN, compression \in BOOLEAN :
        /\ call = NoCall
        /\ \E tables \in {db} :
           IF ~InDb(tables, "opcoes_condutores_600a_v1")
           THEN /\ call' = [fn |-> "tbody_600a", base_code |-> base_code]
                /\ ret' = Page(<<>>, <<>>, FALSE)
           ELSE \E tipo_cond \in Tipos(tables["opcoes_condutores_600a_v1"]) :
                \E secao \in Tamanhos(tables["opcoes_condutores_600a_v1"], tipo_cond) :
                \E i_int \in {600},
                   sb_table \in {IF v_int \in {15, 25} THEN "opcoes_shear_bolt_tb15_25"
                                 ELSE "opcoes_shear_bolt_tb35"} :
                \E range_code \in {find_cable_range_code(d_iso, v_int, i_int, tables, "", None)},
                   w_code \in {IF add_test_point THEN <<"T">> ELSE <<>>},
                   lug_code \in {IF compression
                                 THEN find_compression_lug_600a(tipo_cond, secao, tables)
                                 ELSE find_shear_bolt_lug(secao, tables, sb_table)} :
                        /\ call' = [fn |-> "tbody_600a", base_code |-> base_code,
                                    d_iso |-> d_iso, v_int |-> v_int,
                                    tipo_cond |-> tipo_cond, secao |-> secao,
                                    add_test_point |-> add_test_point,
                                    compression |-> compression]
                        /\ ret' = Page(<<range_code, lug_code>>,
                                       <<<<base_code, w_code, range_code, lug_code>>>>,
                                       IsRaised(lug_code))
        /\ UNCHANGED <<DATA_DIR, session_state, loaded, v_str, v_ret, auditVars>>

\* Lines 592-596: `db.get(a) or db.get(b) or db.get(c)`. The truth value of a
\* data frame raises ValueError, so a loaded first or second candidate raises;
\* the third is returned untested.
IecCondGet(tables) ==
    IF InDb(tables, "opcoes_condutores_iec_400a_v1") \/ InDb(tables, "opcoes_condutores_iec_400a")
    THEN "raise"
    ELSE IF InDb(tables, "options_condutores_iec_400a_v1") THEN "options_condutores_iec_400a_v1"
    ELSE ""

\* Lines 604-632: the types and the sections the page offers.
IecTipos(tables) ==
    IF IecCondGet(tables) = "" \/ tables[IecCondGet(tables)].rows = <<>> THEN {<<>>}
    ELSE Tipos(tables[IecCondGet(tables)])

IecSizes(tables, tipo_cond) ==
    LET listed == IF IecCondGet(tables) = "" \/ tables[IecCondGet(tables)].rows = <<>> THEN {}
                  ELSE LET df == tables[IecCondGet(tables)]
                       IN  {df.rows[i]["secao_mm2"].n :
                              i \in {j \in 1..Len(df.rows) :
                                      /\ tipo_cond # <<>> => df.rows[j]["tipo_condutor"] = Txt(tipo_cond)
                                      /\ df.rows[j]["secao_mm2"].t = "num"}}
    IN  IF listed = {} THEN {DEFAULT_IEC_SIZES[i] : i \in 1..Len(DEFAULT_IEC_SIZES)}
        ELSE listed

\* The boxes "B - Bi-metal" and "C - Copper", in page order.
MaterialChoices == {<<>>, <<<<"B">>>>, <<<<"C">>>>, <<<<"B">>, <<"C">>>>}

\* Lines 591-690.
RenderTBodyIec400A ==
    \E base_code \in BaseCodes, d_iso \in Measures, selected_materials \in MaterialChoices :
        /\ call = NoCall
        /\ \E tables \in {db} :
           IF IecCondGet(tables) = "raise"
           THEN /\ call' = [fn |-> "tbody_iec_400a", base_code |-> base_code]
                /\ ret' = Page(<<>>, <<>>, TRUE)
           ELSE \E tipo_cond \in IecTipos(tables) :
                \E secao \in IecSizes(tables, tipo_cond) :
                \E range_code \in {find_cable_range_code(d_iso, 36, 400, tables,
                                        "opcoes_range_cabo_iec_36kv_400a", Num(secao))},
                   tsbc_code \in {find_tsbc_lug_iec_36kv_400a(secao, tables)},
                   conductor_code \in {find_conductor_code_iec_400a(tipo_cond, secao, tables)} :
                        /\ call' = [fn |-> "tbody_iec_400a", base_code |-> base_code,
                                    d_iso |-> d_iso, tipo_cond |-> tipo_cond, secao |-> secao,
                                    selected_materials |-> selected_materials]
                        /\ ret' = Page(<<range_code, conductor_code, tsbc_code>>,
                                       [i \in 1..Len(selected_materials) |->
                                            <<base_code, range_code, conductor_code,
                                              _materialize_tsbc(tsbc_code, selected_materials[i])>>],
                                       FALSE)
        /\ UNCHANGED <<DATA_DIR, session_state, loaded, v_str, v_ret, auditVars>>

(***************************************************************************)
(* audit_data.py: run_audit                                                *)
(***************************************************************************)

NoTerminationFound == Txt(<<"No Termination Found">>)
TooThin == Txt(<<"Too Thin">>)
TooThick == Txt(<<"Too Thick">>)
Unknown == Txt(<<"Unknown">>)

\* Python's order of str, on the characters of the labels.
AsciiOrder == <<" ", "-", ".", "/", "0", "1", "2", "3", "4", "5", "6", "7", "8", "9",
                "V", "k">>
CharRank(ch) == CHOOSE i \in 1..Len(AsciiOrder) : AsciiOrder[i] = ch

RECURSIVE TextLt(_, _)
TextLt(a, b) ==
    IF b = <<>> THEN FALSE
    ELSE IF a = <<>> THEN TRUE
    ELSE IF Head(a) = Head(b) THEN TextLt(Tail(a), Tail(b))
    ELSE CharRank(Head(a)) < CharRank(Head(b))

\* A group key is <<voltage label, section>>.
KeyLt(k1, k2) == TextLt(k1[1], k2[1]) \/ (k1[1] = k2[1] /\ k1[2] < k2[2])

\* groupby(['Cable Voltage', 'S_mm2']): the keys of the rows that have both,
\* rows with an empty key column belong to no group.
GroupKeys(df) ==
    {<<df.rows[i]["Cable Voltage"].s, df.rows[i]["S_mm2"].n>> :
        i \in {j \in 1..Len(df.rows) :
                df.rows[j]["Cable Voltage"].t = "str" /\ df.rows[j]["S_mm2"].t = "num"}}

\* The keys in the order the loop visits them (groupby sorts its keys).
RECURSIVE SortedKeys(_)
SortedKeys(keys) ==
    IF keys = {} THEN <<>>
    ELSE LET first == CHOOSE k \in keys : \A o \in keys : o = k \/ KeyLt(k, o)
         IN  <<first>> \o SortedKeys(keys \ {first})

\* grupo_df: the rows of a key, in file order.
GroupRows(df, key) ==
    SelectSeq(df.rows, LAMBDA r : r["Cable Voltage"] = Txt(key[1]) /\ r["S_mm2"] = Num(key[2]))

RECURSIVE Insert(_, _)
Insert(x, sorted) ==
    IF sorted = <<>> THEN <<x>>
    ELSE IF x <= Head(sorted) THEN <<x>> \o sorted
    ELSE <<Head(sorted)>> \o Insert(x, Tail(sorted))

RECURSIVE SortedValues(_)
SortedValues(cells) ==
    IF cells = <<>> THEN <<>>
    ELSE IF Head(cells).t = "num" THEN Insert(Head(cells).n, SortedValues(Tail(cells)))
    ELSE SortedValues(Tail(cells))

\* Series.median(), doubled so that it stays whole: empty cells are skipped,
\* the middle value or the mean of the two middle values; NaN of no value.
MedianTwice(rows) ==
    LET vals == SortedValues([i \in 1..Len(rows) |-> rows[i]["OD_iso_mm"]])
        n == Len(vals)
    IN  IF n = 0 THEN NaN
        ELSE IF n % 2 = 1 THEN Num(2 * vals[(n + 1) \div 2])
        ELSE Num(vals[n \div 2] + vals[(n \div 2) + 1])

\* The rows whose window holds the median, of whatever class.
PecasOfAnyClass(terms, v_norm, od_med2) ==
    {i \in 1..Len(terms.rows) :
        /\ od_med2.t = "num"
        /\ terms.rows[i]["OD Min (mm)"].t = "num"
        /\ terms.rows[i]["OD Max (mm)"].t = "num"
        /\ 2 * terms.rows[i]["OD Min (mm)"].n <= od_med2.n
        /\ 2 * terms.rows[i]["OD Max (mm)"].n >= od_med2.n}

\* Lines 36-40: the rows of df_terms of the class whose window holds the
\* median (given doubled).
Pecas(terms, v_norm, od_med2) ==
    {i \in 1..Len(terms.rows) :
        /\ terms.rows[i]["Voltage Class"] = Txt(v_norm)
        /\ od_med2.t = "num"
        /\ terms.rows[i]["OD Min (mm)"].t = "num"
        /\ terms.rows[i]["OD Max (mm)"].t = "num"
        /\ 2 * terms.rows[i]["OD Min (mm)"].n <= od_med2.n
        /\ 2 * terms.rows[i]["OD Max (mm)"].n >= od_med2.n}

TermSpan(terms, i) == terms.rows[i]["OD Max (mm)"].n - terms.rows[i]["OD Min (mm)"].n

\* The rows of greatest span.
WidestFirst(terms, pecas) ==
    {i \in pecas : \A j \in pecas : TermSpan(terms, j) <= TermSpan(terms, i)}

\* Lines 55-57: sort_values('_span').iloc[0]. The default sort is not stable,
\* so the row taken is any row of least span.
NarrowestFirst(terms, pecas) ==
    {i \in pecas : \A j \in pecas : TermSpan(terms, i) <= TermSpan(terms, j)}

\* row.get(col, 'Unknown')
RowGet(df, row, col) == IF col \in ColSet(df) THEN row[col] ELSE Unknown

ReportCols == <<"Cable Voltage", "S_mm2", "Brand", "Cable", "Reason">>

Finding(df, key, row, reason) ==
    [c \in {ReportCols[i] : i \in 1..Len(ReportCols)} |->
        IF c = "Cable Voltage" THEN Txt(key[1])
        ELSE IF c = "S_mm2" THEN Num(key[2])
        ELSE IF c = "Reason" THEN reason
        ELSE RowGet(df, row, c)]

\* The group judged as a whole by its median, where the audit judges each
\* cable by its own diameter.
MedianOutOfWindow(df, key, rows, t_min, t_max) ==
    IF CellLe(Num(2 * t_min.n), MedianTwice(rows)) /\ CellLe(MedianTwice(rows), Num(2 * t_max.n))
    THEN <<>>
    ELSE [i \in 1..Len(rows) |-> Finding(df, key, rows[i], TooThick)]

\* Lines 62-72: the rows of the group outside [t_min, t_max].
RECURSIVE OutOfWindow(_, _, _, _, _)
OutOfWindow(df, key, rows, t_min, t_max) ==
    IF rows = <<>> THEN <<>>
    ELSE LET od_real == Head(rows)["OD_iso_mm"]
             rest == OutOfWindow(df, key, Tail(rows), t_min, t_max)
         IN  IF CellLe(t_min, od_real) /\ CellLe(od_real, t_max) THEN rest
             ELSE <<Finding(df, key, Head(rows),
                            IF CellLt(od_real, t_min) THEN TooThin ELSE TooThick)>> \o rest

\* The share of findings, where the audit takes the share of cables covered.
TaxaDeErros(acertos, linhas) == <<(linhas - acertos) * 100, linhas>>

\* Line 77: (total_acertos / total_linhas_db) * 100, kept as the fraction
\* <<numerator, denominator>>.
Taxa(acertos, linhas) == <<acertos * 100, linhas>>

\* Lines 17-30.
AuditLoad ==
    /\ pc = "start"
    /\ IF data.cabos.readable /\ data.terms.readable
       THEN /\ pc' = "loop"
            /\ df_cabos' = data.cabos.df
            /\ df_terms' = data.terms.df
            /\ grupos' = SortedKeys(GroupKeys(data.cabos.df))
            /\ total_linhas_db' = Len(data.cabos.df.rows)
       ELSE /\ pc' = "returned"
            /\ UNCHANGED <<df_cabos, df_terms, grupos, total_linhas_db>>
    /\ UNCHANGED <<data, lista_negra, escolhidas, total_erros, total_acertos, taxa_acerto,
                   report>>
    /\ UNCHANGED <<v_str, v_ret, DATA_DIR, session_state, loaded, call, ret>>

\* Lines 31-72: one round of the loop over the groups.
AuditGroup ==
    /\ pc = "loop"
    /\ grupos # <<>>
    /\ \E key \in {Head(grupos)} :
       \E grupo_df \in {GroupRows(df_cabos, key)} :
       \E od_med2 \in {MedianTwice(grupo_df)}, v_norm \in {_norm_voltage(key[1])} :
       \E pecas \in {Pecas(df_terms, v_norm, od_med2)} :
          IF pecas = {}
          THEN /\ lista_negra' = lista_negra \o
                    [i \in 1..Len(grupo_df) |->
                        Finding(df_cabos, key, grupo_df[i], NoTerminationFound)]
               /\ escolhidas' = Append(escolhidas,
                                       [key |-> key, od_med2 |-> od_med2, peca |-> 0])
          ELSE \E peca_escolhida \in NarrowestFirst(df_terms, pecas) :
               /\ lista_negra' = lista_negra \o
                    OutOfWindow(df_cabos, key, grupo_df,
                                df_terms.rows[peca_escolhida]["OD Min (mm)"],
                                df_terms.rows[peca_escolhida]["OD Max (mm)"])
               /\ escolhidas' = Append(escolhidas,
                                       [key |-> key, od_med2 |-> od_med2,
                                        peca |-> peca_escolhida])
    /\ grupos' = Tail(grupos)
    /\ UNCHANGED <<data, pc, df_cabos, df_terms, total_linhas_db, total_erros, total_acertos,
                   taxa_acerto, report>>
    /\ UNCHANGED <<v_str, v_ret, DATA_DIR, session_state, loaded, call, ret>>

\* Lines 75-77: the division raises ZeroDivisionError on an empty cable
\* database.
AuditStats ==
    /\ pc = "loop"
    /\ grupos = <<>>
    /\ total_erros' = Len(lista_negra)
    /\ total_acertos' = total_linhas_db - Len(lista_negra)
    /\ IF total_linhas_db = 0
       THEN /\ pc' = "ZeroDivisionError"
            /\ UNCHANGED taxa_acerto
       ELSE /\ pc' = "save"
            /\ taxa_acerto' = Taxa(total_linhas_db - Len(lista_negra), total_linhas_db)
    /\ UNCHANGED <<data, df_cabos, df_terms, grupos, lista_negra, escolhidas,
                   total_linhas_db, report>>
    /\ UNCHANGED <<v_str, v_ret, DATA_DIR, session_state, loaded, call, ret>>

\* Lines 87-96: problematic_cables.csv.
AuditSave ==
    /\ pc = "save"
    /\ report' = [cols |-> ReportCols, rows |-> lista_negra]
    /\ pc' = "done"
    /\ UNCHANGED <<data, df_cabos, df_terms, grupos, lista_negra, escolhidas,
                   total_linhas_db, total_erros, total_acertos, taxa_acerto>>
    /\ UNCHANGED <<v_str, v_ret, DATA_DIR, session_state, loaded, call, ret>>

(***************************************************************************)
(* The files of an audit                                                   *)
(***************************************************************************)

\* A cable database has at most MaxCables rows and a termination table at
\* most MaxTerms rows.
MaxCables == 3
MaxTerms == 2

\* The cables of the audits: three diameters of one nominal size, a cable of
\* another class and size, a cable with no section and a cable with no
\* diameter.
CableShapes ==
    {<<Txt(L_87_15), Num(50), Num(od)>> : od \in {1, 2, 3}}
    \cup {<<Txt(L_12_20), Num(95), Num(2)>>,
          <<Txt(L_87_15), NaN, Num(2)>>,
          <<Txt(L_87_15), Num(50), NaN>>}

\* The terminations: a point, a wide and a half window of the 15 kV class and
\* a point of the 25 kV class.
TermRows ==
    {Term(kV15, 2, 2), Term(kV15, 1, 3), Term(kV15, 1, 2), Term(kV25, 2, 2)}

CableFiles ==
    {[readable |-> TRUE, df |-> [cols |-> CableCols, rows |-> CableRows(shapes)]] :
        shapes \in UNION {[1..k -> CableShapes] : k \in 0..MaxCables}}
    \cup {[readable |-> FALSE, df |-> [cols |-> <<>>, rows |-> <<>>]]}

TermFiles ==
    {[readable |-> TRUE, df |-> [cols |-> TermCols, rows |-> rows]] :
        rows \in UNION {[1..k -> TermRows] : k \in 0..MaxTerms}}
    \cup {[readable |-> FALSE, df |-> [cols |-> <<>>, rows |-> <<>>]]}

(***************************************************************************)
(* product_selector_app.py: suggest_termination_connector                  *)
(***************************************************************************)

LowerChar(ch) ==
    IF \E i \in 1..Len(UpperLetters) : UpperLetters[i] = ch
    THEN LowerLetters[CHOOSE i \in 1..Len(UpperLetters) : UpperLetters[i] = ch]
    ELSE ch

\* str.lower()
Lower(s) == [i \in 1..Len(s) |-> LowerChar(s[i])]

\* Lines 704-713: what the function changes in place in its frame: Type and
\* Material in lower case, the bounds as numbers.
ConnInPlace(df) ==
    IF ~({"Type", "Conductor Min (mm2)", "Conductor Max (mm2)"} \subseteq ColSet(df)) THEN df
    ELSE [cols |-> df.cols,
          rows |-> [i \in 1..Len(df.rows) |->
                      [c \in ColSet(df) |->
                          IF c \in {"Type", "Material"}
                          THEN Txt(Lower(AsStr(df.rows[i][c]).s))
                          ELSE IF c \in {"Conductor Min (mm2)", "Conductor Max (mm2)"}
                          THEN ToNumeric(df.rows[i][c])
                          ELSE df.rows[i][c]]]]

\* The sort keys of line 720: the span, then the lower bound.
SpanThenMinLe(r1, r2) ==
    LET span1 == r1["Conductor Max (mm2)"].n - r1["Conductor Min (mm2)"].n
        span2 == r2["Conductor Max (mm2)"].n - r2["Conductor Min (mm2)"].n
    IN  \/ span1 < span2
        \/ span1 = span2 /\ r1["Conductor Min (mm2)"].n <= r2["Conductor Min (mm2)"].n

\* sort_values on several columns is a stable sort: rows equal in every key
\* keep their order.
RECURSIVE SortBySpanThenMin(_)
SortBySpanThenMin(rows) ==
    IF rows = <<>> THEN <<>>
    ELSE LET rest == SortBySpanThenMin(Tail(rows))
             before == {k \in 1..Len(rest) : ~SpanThenMinLe(Head(rows), rest[k])}
         IN  IF \A k \in 1..Len(rest) : k \in before
             THEN rest \o <<Head(rows)>>
             ELSE LET at == CHOOSE k \in 1..Len(rest) :
                                k \notin before /\ \A j \in 1..(k - 1) : j \in before
                  IN  SubSeq(rest, 1, at - 1) \o <<Head(rows)>> \o SubSeq(rest, at, Len(rest))

\* Lines 702-721: the rows returned, best first; material is <<>> for None.
suggest_termination_connector(s_mm2, kind, tables, material) ==
    IF ~InDb(tables, "connector_selection_table") THEN KeyError
    ELSE LET df_conn == ConnInPlace(tables["connector_selection_table"])
         IN  IF ~({"Type", "Conductor Min (mm2)", "Conductor Max (mm2)"} \subseteq ColSet(df_conn))
             THEN <<>>
             ELSE LET of_kind == SelectSeq(df_conn.rows, LAMBDA r : r["Type"] = Txt(Lower(kind)))
                      filtered == IF Lower(kind) = Lower(Compression) /\ material # <<>>
                                  THEN SelectSeq(of_kind,
                                           LAMBDA r : r["Material"] = Txt(Lower(material)))
                                  ELSE of_kind
                      matches == SelectSeq(filtered, LAMBDA r :
                                    /\ CellLe(r["Conductor Min (mm2)"], Num(s_mm2))
                                    /\ CellLe(Num(s_mm2), r["Conductor Max (mm2)"]))
                  IN  SortBySpanThenMin(matches)

(***************************************************************************)
(* product_selector_app.py: a session, call after call on the same tables  *)
(***************************************************************************)

\* The tables when a function has changed in place the frame it took from
\* tables[name] without copying it.
NoCopy(tables, name, changed) == [tables EXCEPT ![name] = changed]

\* df = db[name].copy(): `changed` is the copy after the function's changes
\* in place; the table of tables[name] is another object and stays as it is.
copy(tables, name, changed) == tables

\* Lines 191-278: the renames and the conversion of the bounds, up to the
\* return that ends the call.
RangeInPlace(df, cross_section_mm2) ==
    LET df_range == RangeRenamed(df)
        has_diameter_bounds == {"min_mm", "max_mm"} \subseteq ColSet(df_range)
        has_cross_section_bounds == {"min_mm2", "max_mm2"} \subseteq ColSet(df_range)
    IN  IF "codigo_retorno" \notin ColSet(df_range) THEN df_range
        ELSE IF ~has_diameter_bounds /\ ~has_cross_section_bounds THEN df_range
        ELSE IF has_cross_section_bounds /\ ~has_diameter_bounds
        THEN IF cross_section_mm2 = None THEN df_range
             ELSE ToNumericCol(ToNumericCol(df_range, "min_mm2"), "max_mm2")
        ELSE ToNumericCol(ToNumericCol(df_range, "min_mm"), "max_mm")

\* Lines 320-322.
ShearInPlace(df) ==
    LET d1 == IF "min_mm2" \in ColSet(df) THEN ToNumericCol(df, "min_mm2") ELSE df
    IN  IF "max_mm2" \in ColSet(d1) THEN ToNumericCol(d1, "max_mm2") ELSE d1

\* Lines 343-370.
TsbcInPlace(df) ==
    LET d1 == _rename_like(df, "codigo_retorno",
                <<"codigo_retorno", "codigo", "code", "tsbc_code">>)
        d2 == _rename_like(d1, "min_mm2",
                <<"min_mm2", "min (mm2)", "minimo_mm2", "secao_min_mm2", "bitola_min_mm2">>)
        d3 == _rename_like(d2, "max_mm2",
                <<"max_mm2", "max (mm2)", "maximo_mm2", "secao_max_mm2", "bitola_max_mm2">>)
    IN  ShearInPlace(d3)

\* Lines 395-396.
IecCondInPlace(df) ==
    IF "secao_mm2" \in ColSet(df) THEN ToNumericCol(df, "secao_mm2") ELSE df

SessionFindCableRangeCode ==
    \E diameter \in Measures, shape \in RangeCallShapes,
       cross_section_mm2 \in {None} \cup {Num(x) : x \in Measures} :
        /\ pc = "idle"
        /\ shape[3] = "" => cross_section_mm2 = None
        /\ call' = [fn |-> "find_cable_range_code", diameter |-> diameter,
                    voltage |-> shape[1], current |-> shape[2],
                    table_basename |-> shape[3], cross_section_mm2 |-> cross_section_mm2]
        /\ ret' = find_cable_range_code(diameter, shape[1], shape[2], loaded, shape[3],
                                        cross_section_mm2)
        /\ \E table_name \in {RangeTableName(shape[1], shape[2], loaded, shape[3])} :
              loaded' = IF ~InDb(loaded, table_name) THEN loaded
                        ELSE copy(loaded, table_name,
                                  RangeInPlace(loaded[table_name], cross_section_mm2))
        /\ UNCHANGED <<DATA_DIR, session_state, v_str, v_ret, auditVars>>

SessionFindShearBoltLug ==
    \E cond_size \in Measures, table_name \in {"", "opcoes_shear_bolt_tb15_25"} :
        /\ pc = "idle"
        /\ call' = [fn |-> "find_shear_bolt_lug", cond_size |-> cond_size,
                    table_name |-> table_name]
        /\ ret' = find_shear_bolt_lug(cond_size, loaded, table_name)
        /\ \E tn \in {IF table_name # "" THEN table_name ELSE "opcoes_shear_bolt_v1"} :
              loaded' = IF ~InDb(loaded, tn) THEN loaded
                        ELSE copy(loaded, tn, ShearInPlace(loaded[tn]))
        /\ UNCHANGED <<DATA_DIR, session_state, v_str, v_ret, auditVars>>

SessionFindTsbcLug ==
    \E cond_size \in Measures :
        /\ pc = "idle"
        /\ call' = [fn |-> "find_tsbc_lug_iec_36kv_400a", cond_size |-> cond_size]
        /\ ret' = find_tsbc_lug_iec_36kv_400a(cond_size, loaded)
        /\ \E table_name \in {FirstPresent(<<"opcoes_lugs_tsbc_iec_36kv_400a",
                                             "options_lugs_tsbc_iec_36kv_400a",
                                             "options_lugs_iec_36kv_400a">>, loaded)} :
              loaded' = IF ~InDb(loaded, table_name) THEN loaded
                        ELSE copy(loaded, table_name, TsbcInPlace(loaded[table_name]))
        /\ UNCHANGED <<DATA_DIR, session_state, v_str, v_ret, auditVars>>

SessionFindConductorCodeIec400a ==
    \E cond_type \in CondTypes \cup {<<>>}, cond_size \in Measures :
        /\ pc = "idle"
        /\ call' = [fn |-> "find_conductor_code_iec_400a", cond_type |-> cond_type,
                    cond_size |-> cond_size]
        /\ ret' = find_conductor_code_iec_400a(cond_type, cond_size, loaded)
        /\ \E table_name \in {FirstPresent(<<"opcoes_condutores_iec_400a_v1",
                                             "opcoes_condutores_iec_400a",
                                             "options_condutores_iec_400a_v1">>, loaded)} :
              loaded' = IF ~InDb(loaded, table_name) THEN loaded
                        ELSE copy(loaded, table_name, IecCondInPlace(loaded[table_name]))
        /\ UNCHANGED <<DATA_DIR, session_state, v_str, v_ret, auditVars>>

\* Lines 788-792: the kind is "compression" or "shear-bolt", the material one of
\* the table's or None.
SessionSuggestTerminationConnector ==
    \E s_mm2 \in Measures, kind \in {Lower(Compression), Lower(ShearBolt)},
       material \in {<<>>, Cu, Al} :
        /\ pc = "idle"
        /\ kind = Lower(ShearBolt) => material = <<>>
        /\ call' = [fn |-> "suggest_termination_connector", s_mm2 |-> s_mm2,
                    kind |-> kind, material |-> material]
        /\ ret' = suggest_termination_connector(s_mm2, kind, loaded, material)
        /\ loaded' = IF ~InDb(loaded, "connector_selection_table") THEN loaded
                     ELSE copy(loaded, "connector_selection_table",
                               ConnInPlace(loaded["connector_selection_table"]))
        /\ UNCHANGED <<DATA_DIR, session_state, v_str, v_ret, auditVars>>

(***************************************************************************)
(* product_selector_app.py: render_termination_selector                    *)
(***************************************************************************)

\* Line 731: the termination class of each cable voltage.
TENS_MAP ==
    (L_87_15 :> kV15) @@ (L_12_20 :> kV25) @@ (L_15_25 :> kV25) @@ (L_20_35 :> kV35)

\* Lines 699-700, in mm.
termination_tol(tensao_term) == IF Contains(tensao_term, kV15) THEN 2 ELSE 3

\* The choices of the two radios (lines 736-737).
Outdoor == <<"O", "u", "t", "d", "o", "o", "r">>
Indoor == <<"I", "n", "d", "o", "o", "r">>
KnowNo == <<"N", "o", ",", " ", "e", "s", "t", "i", "m", "a", "t", "e", " ", "b", "y", " ",
            "s", "i", "z", "e">>
KnowYes == <<"Y", "e", "s", ",", " ", "e", "n", "t", "e", "r", " ", "v", "a", "l", "u", "e">>

\* A diameter is a whole number of ten-thousandths of a millimetre.
PerMm == 10 * 10 * 10 * 10

\* The diameters typed into the number input: two that round to the same
\* thousandth and one beyond every termination.
DiaInputs == {2 * PerMm, 2 * PerMm + 4, 9 * PerMm}

\* f"{d_iso:.3f}": the diameter rounded to thousandths.
Format3f(d_iso) ==
    LET thousandths == (d_iso + 5) \div 10
    IN  IntToText(thousandths \div 1000) \o <<".">> \o zfill(IntToText(thousandths % 1000), 3)

\* f"{s_mm2}" of a float.
FormatFloat(c) == IF c.t = "num" THEN IntToText(c.n) \o <<".", "0">> ELSE CellText(c)

\* Line 757.
Signature(env_choice, cabo_tensao, know_iso, s_mm2, d_iso) ==
    Join(<<"|">>, <<env_choice, cabo_tensao, know_iso, FormatFloat(s_mm2), Format3f(d_iso)>>)

\* dict.setdefault
setdefault(d, key, value) == IF key \in DOMAIN d THEN d ELSE d @@ (key :> value)

\* A session state that keeps term_searched when the signature changes.
KeepOnNewSignature(st, signature) == [st EXCEPT !.term_query_signature = signature]

\* Lines 758-760.
ResetOnNewSignature(st, signature) ==
    IF signature # st.term_query_signature
    THEN [st EXCEPT !.term_query_signature = signature, !.term_searched = FALSE]
    ELSE st

\* Lines 772-775: the rows of the termination table offered for a diameter.
Compatible(df_term, tensao_term, d_iso, tolerance) ==
    {i \in 1..Len(df_term.rows) :
        /\ df_term.rows[i]["Voltage Class"] = Txt(tensao_term)
        /\ df_term.rows[i]["OD Min (mm)"].t = "num"
        /\ df_term.rows[i]["OD Min (mm)"].n * PerMm <= d_iso + tolerance * PerMm
        /\ df_term.rows[i]["OD Max (mm)"].t = "num"
        /\ df_term.rows[i]["OD Max (mm)"].n * PerMm >= d_iso - tolerance * PerMm}

\* Lines 782-786: the materials of the compression lugs.
LUG_MATERIALS(df_conn_table) ==
    {df_conn_table.rows[i]["Material"].s :
        i \in {k \in 1..Len(df_conn_table.rows) :
                Lower(df_conn_table.rows[k]["Type"].s) = Lower(Compression)}}

\* What a run leaves on the page: whether it stopped before the buttons,
\* whether section 2 was shown, and then the terminations and the lugs shown.
TermPage(early, shown, matches, conn_df) ==
    [early |-> early, shown |-> shown, matches |-> matches, conn_df |-> conn_df]

\* Lines 768-796, for a run whose term_searched is set.
SearchResults(tables, env_choice, tensao_term, d_iso, tolerance, s_mm2, kind, mat) ==
    LET df_term == IF StartsWith(env_choice, Outdoor) THEN tables["csto_selection_table"]
                   ELSE tables["csti_selection_table"]
        matches == Compatible(df_term, tensao_term, d_iso, tolerance)
    IN  IF matches = {} THEN TermPage(FALSE, TRUE, {}, <<>>)
        ELSE IF s_mm2.t # "num" THEN TermPage(FALSE, TRUE, matches, ValueError)
        ELSE TermPage(FALSE, TRUE, matches,
                      suggest_termination_connector(s_mm2.n, kind, tables, mat))

\* Lines 723-796: one run of the page. The widgets hold what the user last
\* chose; at most one of the two buttons was pressed.
RenderTerminationSelector ==
    \E env_choice \in {Outdoor, Indoor}, know_iso \in {KnowNo, KnowYes},
       dia_term \in DiaInputs, search \in BOOLEAN, reset \in BOOLEAN,
       kind \in {Lower(Compression), Lower(ShearBolt)} :
    \E tables \in {db} :
    \E df_cable \in {tables["bitola_to_od"]} :
    \E cabo_tensao \in {df_cable.rows[i]["Cable Voltage"].s : i \in 1..Len(df_cable.rows)} :
    \E filtro \in {SelectSeq(df_cable.rows, LAMBDA r : r["Cable Voltage"] = Txt(cabo_tensao))} :
    \E s_mm2 \in IF StartsWith(know_iso, <<"Y", "e", "s">>)
                 THEN {df_cable.rows[i]["S_mm2"] : i \in 1..Len(df_cable.rows)}
                 ELSE {filtro[i]["S_mm2"] : i \in 1..Len(filtro)} :
    \E linha \in {SelectSeq(filtro, LAMBDA r : s_mm2.t = "num" /\ r["S_mm2"] = s_mm2)} :
    \E mat \in IF kind # Lower(Compression) \/ LUG_MATERIALS(tables["connector_selection_table"]) = {}
               THEN {<<>>}
               ELSE LUG_MATERIALS(tables["connector_selection_table"]) :
    \E st0 \in {setdefault(setdefault(session_state, "term_searched", FALSE),
                           "term_query_signature", <<>>)} :
        /\ pc = "idle"
        /\ ~(search /\ reset)
        /\ \E tensao_term \in {IF cabo_tensao \in DOMAIN TENS_MAP THEN TENS_MAP[cabo_tensao]
                               ELSE <<>>} :
           \E tolerance \in {termination_tol(tensao_term)} :
           IF ~StartsWith(know_iso, <<"Y", "e", "s">>) /\ linha = <<>>
           THEN /\ call' = [fn |-> "render_termination_selector", env_choice |-> env_choice,
                            cabo_tensao |-> cabo_tensao, know_iso |-> know_iso,
                            s_mm2 |-> s_mm2, d_iso |-> 0, search |-> FALSE, reset |-> FALSE]
                /\ session_state' = st0
                /\ ret' = TermPage(TRUE, FALSE, {}, <<>>)
           ELSE \E d_iso \in {IF StartsWith(know_iso, <<"Y", "e", "s">>) THEN dia_term
                              ELSE linha[1]["OD_iso_mm"].n * PerMm} :
                \E st1 \in {ResetOnNewSignature(st0,
                                Signature(env_choice, cabo_tensao, know_iso, s_mm2, d_iso))} :
                \E st2 \in {IF search THEN [st1 EXCEPT !.term_searched = TRUE] ELSE st1} :
                \E st3 \in {IF reset THEN [st2 EXCEPT !.term_searched = FALSE] ELSE st2} :
                   /\ call' = [fn |-> "render_termination_selector",
                               env_choice |-> env_choice, cabo_tensao |-> cabo_tensao,
                               know_iso |-> know_iso, s_mm2 |-> s_mm2, d_iso |-> d_iso,
                               search |-> search, reset |-> reset]
                   /\ session_state' = st3
                   /\ ret' = IF st3.term_searched
                             THEN SearchResults(tables, env_choice, tensao_term, d_iso,
                                                tolerance, s_mm2, kind, mat)
                             ELSE TermPage(FALSE, FALSE, {}, <<>>)
        /\ UNCHANGED <<DATA_DIR, loaded, v_str, v_ret, auditVars>>

(***************************************************************************)
(* Specifications                                                          *)
(***************************************************************************)

\* One call of _norm_voltage on a label.
InitNorm ==
    /\ v_str \in VoltageInputs
    /\ v_ret = Unset
    /\ DATA_DIR = NoFiles
    /\ loaded = <<>>
    /\ session_state = <<>>
    /\ call = NoCall
    /\ ret = Unset
    /\ data = <<>>
    /\ pc = "idle"
    /\ df_cabos = <<>>
    /\ df_terms = <<>>
    /\ grupos = <<>>
    /\ lista_negra = <<>>
    /\ escolhidas = <<>>
    /\ total_linhas_db = 0
    /\ total_erros = 0
    /\ total_acertos = 0
    /\ taxa_acerto = Unset
    /\ report = Unset
NextNorm == NormVoltage
SpecNorm == InitNorm /\ [][NextNorm]_vars

\* One call of a resolver on a data folder.
InitResolve ==
    /\ v_str = <<>>
    /\ v_ret = Unset
    /\ DATA_DIR \in DataDirs
    /\ loaded = <<>>
    /\ session_state = <<>>
    /\ call = NoCall
    /\ ret = Unset
    /\ data = <<>>
    /\ pc = "idle"
    /\ df_cabos = <<>>
    /\ df_terms = <<>>
    /\ grupos = <<>>
    /\ lista_negra = <<>>
    /\ escolhidas = <<>>
    /\ total_linhas_db = 0
    /\ total_erros = 0
    /\ total_acertos = 0
    /\ taxa_acerto = Unset
    /\ report = Unset

NextResolve ==
    \/ CallFindCableRangeCode
    \/ CallFindShearBoltLug
    \/ CallFindConductorCode200a
    \/ CallFindCompressionLug600a
    \/ CallFindTsbcLug
    \/ CallFindConductorCodeIec400a
SpecResolve == InitResolve /\ [][NextResolve]_vars

\* One rendering of a configurator branch on a data folder.
InitConfig ==
    /\ v_str = <<>>
    /\ v_ret = Unset
    /\ DATA_DIR \in ConfigDataDirs
    /\ loaded = <<>>
    /\ session_state = <<>>
    /\ call = NoCall
    /\ ret = Unset
    /\ data = <<>>
    /\ pc = "idle"
    /\ df_cabos = <<>>
    /\ df_terms = <<>>
    /\ grupos = <<>>
    /\ lista_negra = <<>>
    /\ escolhidas = <<>>
    /\ total_linhas_db = 0
    /\ total_erros = 0
    /\ total_acertos = 0
    /\ taxa_acerto = Unset
    /\ report = Unset
NextConfig ==
    \/ RenderElbow200A
    \/ RenderTBody600A
    \/ RenderTBodyIec400A
SpecConfig == InitConfig /\ [][NextConfig]_vars

\* One run of run_audit on a pair of files.
InitAudit ==
    /\ v_str = <<>>
    /\ v_ret = Unset
    /\ DATA_DIR = NoFiles
    /\ loaded = <<>>
    /\ session_state = <<>>
    /\ call = NoCall
    /\ ret = Unset
    /\ data \in [cabos : CableFiles, terms : TermFiles]
    /\ pc = "start"
    /\ df_cabos = <<>>
    /\ df_terms = <<>>
    /\ grupos = <<>>
    /\ lista_negra = <<>>
    /\ escolhidas = <<>>
    /\ total_linhas_db = 0
    /\ total_erros = 0
    /\ total_acertos = 0
    /\ taxa_acerto = Unset
    /\ report = Unset
NextAudit ==
    \/ AuditLoad
    \/ AuditGroup
    \/ AuditStats
    \/ AuditSave
SpecAudit == InitAudit /\ [][NextAudit]_vars

\* The range rows of the sessions: those of the configurator, and a table
\* whose bounds are not all numbers.
SessionRows ==
    ConfigRows
    \cup {<<[lo |-> Txt(<<"2">>), hi |-> Num(MaxBound), coded |-> TRUE],
            [lo |-> NaN, hi |-> Num(MaxBound), coded |-> TRUE]>>}

\* The folders of the sessions: the range tables varied in layout and rows,
\* the connector table varied, and a folder with the connector table alone.
SessionDirs ==
    {Folder(TableNames \cup {"connector_selection_table"}, schema, shapes) :
        schema \in {SchemaMm, SchemaAlias}, shapes \in SessionRows}
    \cup {[Folder(TableNames \cup {"connector_selection_table"}, SchemaMm, RangeRows0)
             EXCEPT !.conn = rows] : rows \in ConnRowSeqs}
    \cup {Folder({"connector_selection_table"}, SchemaMm, RangeRows0)}

\* The files of the audits that use the reference data beside the sessions:
\* cables of one class and size, and terminations of that class among which
\* two have the same span.
SessionAudits ==
    [cabos : {f \in CableFiles :
                f.readable /\ \A k \in 1..Len(f.df.rows) :
                    /\ f.df.rows[k]["Cable Voltage"] = Txt(L_87_15)
                    /\ f.df.rows[k]["S_mm2"] = Num(50)
                    /\ f.df.rows[k]["OD_iso_mm"].t = "num"},
     terms : {[readable |-> TRUE, df |-> [cols |-> TermCols, rows |-> rows]] :
                rows \in UNION {[1..k -> {Term(kV15, 1, 2), Term(kV15, 2, 3), Term(kV15, 1, 3)}] :
                                  k \in 0..MaxTerms}}]

\* The reference data in use: a session of the application calling the
\* resolvers on the tables it loaded, or a run of the audit on its files.
InitSession ==
    /\ v_str = <<>>
    /\ v_ret = Unset
    /\ session_state = <<>>
    /\ call = NoCall
    /\ ret = Unset
    /\ \/ /\ DATA_DIR \in SessionDirs
          /\ loaded = load_database(DATA_DIR)
          /\ data = <<>>
          /\ pc = "idle"
       \/ /\ DATA_DIR = NoFiles
          /\ loaded = load_database(DATA_DIR)
          /\ data \in SessionAudits
          /\ pc = "start"
    /\ df_cabos = <<>>
    /\ df_terms = <<>>
    /\ grupos = <<>>
    /\ lista_negra = <<>>
    /\ escolhidas = <<>>
    /\ total_linhas_db = 0
    /\ total_erros = 0
    /\ total_acertos = 0
    /\ taxa_acerto = Unset
    /\ report = Unset
NextSession ==
    \/ SessionFindCableRangeCode
    \/ SessionFindShearBoltLug
    \/ SessionFindTsbcLug
    \/ SessionFindConductorCodeIec400a
    \/ SessionSuggestTerminationConnector
    \/ AuditLoad
    \/ AuditGroup
    \/ AuditStats
    \/ AuditSave
SpecSession == InitSession /\ [][NextSession]_vars

\* The folders of the termination selector: its four required tables, the
\* cables and the terminations varied.
SelectorDirs ==
    {[Folder({"bitola_to_od", "csto_selection_table", "csti_selection_table",
              "connector_selection_table"}, SchemaMm, <<>>)
        EXCEPT !.cabos = cabos, !.terms = terms, !.conn = conn] :
        cabos \in {<<<<Txt(L_87_15), Num(50), Num(2)>>, <<Txt(L_12_20), Num(95), Num(3)>>>>,
                   <<<<Txt(L_87_15), Num(50), Num(2)>>, <<Txt(L_87_15), NaN, Num(2)>>>>},
        terms \in {<<Term(kV15, 1, 3), Term(kV25, 2, 2)>>, <<Term(kV15, 2, 2)>>, <<>>},
        conn \in {<<<<Txt(Compression), Txt(Cu), Num(1), Num(50), "P1">>,
                    <<Txt(ShearBolt), NaN, Num(1), Num(95), "P5">>>>}}

\* Reruns of the termination selector in one browser session.
InitSelector ==
    /\ v_str = <<>>
    /\ v_ret = Unset
    /\ DATA_DIR \in SelectorDirs
    /\ loaded = <<>>
    /\ session_state = <<>>
    /\ call = NoCall
    /\ ret = Unset
    /\ data = <<>>
    /\ pc = "idle"
    /\ df_cabos = <<>>
    /\ df_terms = <<>>
    /\ grupos = <<>>
    /\ lista_negra = <<>>
    /\ escolhidas = <<>>
    /\ total_linhas_db = 0
    /\ total_erros = 0
    /\ total_acertos = 0
    /\ taxa_acerto = Unset
    /\ report = Unset
NextSelector == RenderTerminationSelector
SpecSelector == InitSelector /\ [][NextSelector]_vars

(***************************************************************************)
(* Claims                                                                  *)
(***************************************************************************)

\* `sub` occurs in `s`, stated by position rather than by scanning.
Occurs(s, sub) ==
    \E i \in 1..(Len(s) + 1) :
        /\ i + Len(sub) - 1 <= Len(s)
        /\ \A j \in 1..Len(sub) : s[i + j - 1] = sub[j]

Has15(s) == Occurs(s, <<"1", "5">>)
Has25(s) == Occurs(s, <<"2", "5">>) \/ Occurs(s, <<"2", "4">>) \/ Occurs(s, <<"2", "0">>)
Has35(s) == Occurs(s, <<"3", "5">>)

\* C3: _norm_voltage classifies by substring containment in strict priority
\* order: "15" gives 15 kV; otherwise "25", "24" or "20" gives 25 kV; otherwise
\* "35" gives 35 kV; otherwise the raw text is returned unchanged. "24 kV"
\* gives 25 kV and "15/25 kV" gives 15 kV.
C3_NormPriority ==
    v_ret # Unset =>
        /\ Has15(v_str) => v_ret = kV15
        /\ (~Has15(v_str) /\ Has25(v_str)) => v_ret = kV25
        /\ (~Has15(v_str) /\ ~Has25(v_str) /\ Has35(v_str)) => v_ret = kV35
        /\ (~Has15(v_str) /\ ~Has25(v_str) /\ ~Has35(v_str)) => v_ret = v_str
        /\ v_str = L_24 => v_ret = kV25
        /\ v_str = L_15_25 => v_ret = kV15

\* A label holding both "15" and "25" has been classified.
C3_Witness == v_str = L_15_25 /\ v_ret = kV15

(***************************************************************************)
(* The range table of a call, as the claims speak of it                    *)
(***************************************************************************)

\* The resolver of `c`, applied to the tables `tables`.
Apply(c, tables) ==
    CASE c.fn = "find_cable_range_code" ->
            find_cable_range_code(c.diameter, c.voltage, c.current, tables,
                                  c.table_basename, c.cross_section_mm2)
      [] c.fn = "find_shear_bolt_lug" -> find_shear_bolt_lug(c.cond_size, tables, c.table_name)
      [] c.fn = "find_conductor_code_200a" ->
            find_conductor_code_200a(c.cond_type, c.cond_size, tables)
      [] c.fn = "find_compression_lug_600a" ->
            find_compression_lug_600a(c.cond_type, c.cond_size, tables)
      [] c.fn = "find_tsbc_lug_iec_36kv_400a" -> find_tsbc_lug_iec_36kv_400a(c.cond_size, tables)
      [] c.fn = "find_conductor_code_iec_400a" ->
            find_conductor_code_iec_400a(c.cond_type, c.cond_size, tables)
      [] c.fn = "suggest_termination_connector" ->
            suggest_termination_connector(c.s_mm2, c.kind, tables, c.material)

\* The file the call reads, when it is loaded.
QName ==
    CASE call.fn = "find_cable_range_code" ->
            RangeTableName(call.voltage, call.current, db, call.table_basename)
      [] call.fn = "find_shear_bolt_lug" ->
            IF call.table_name # "" THEN call.table_name ELSE "opcoes_shear_bolt_v1"
      [] call.fn = "find_conductor_code_200a" -> "opcoes_condutores_v1"
      [] call.fn = "find_compression_lug_600a" -> "opcoes_condutores_600a_v1"
      [] call.fn = "find_tsbc_lug_iec_36kv_400a" ->
            FirstPresent(<<"opcoes_lugs_tsbc_iec_36kv_400a", "options_lugs_tsbc_iec_36kv_400a",
                           "options_lugs_iec_36kv_400a">>, db)
      [] call.fn = "find_conductor_code_iec_400a" ->
            FirstPresent(<<"opcoes_condutores_iec_400a_v1", "opcoes_condutores_iec_400a",
                           "options_condutores_iec_400a_v1">>, db)

IsRangeCall == call.fn \in {"find_cable_range_code", "find_shear_bolt_lug"}

\* The table of a range call under its canonical column names.
QTable == IF call.fn = "find_cable_range_code" THEN RangeRenamed(db[QName]) ELSE db[QName]

NoView == [usable |-> FALSE, measure |-> 0, rows |-> <<>>]

\* What a range call reads: whether it reads a loaded table with bounds,
\* return codes and a measurement in the table's unit, and then the
\* measurement and, row by row, the bounds as numbers and the return code.
QView ==
    IF ~IsRangeCall \/ ~InDb(db, QName) THEN NoView
    ELSE LET tbl == QTable
             inMm == call.fn = "find_cable_range_code"
                     /\ {"min_mm", "max_mm"} \subseteq ColSet(tbl)
             minCol == IF inMm THEN "min_mm" ELSE "min_mm2"
             maxCol == IF inMm THEN "max_mm" ELSE "max_mm2"
             measure == IF call.fn = "find_shear_bolt_lug" THEN Num(call.cond_size)
                        ELSE IF inMm THEN Num(call.diameter)
                        ELSE call.cross_section_mm2
         IN  IF ~({minCol, maxCol, "codigo_retorno"} \subseteq ColSet(tbl)) \/ measure.t # "num"
             THEN NoView
             ELSE [usable |-> TRUE,
                   measure |-> measure.n,
                   rows |-> [i \in 1..Len(tbl.rows) |->
                               [lo |-> ToNumeric(tbl.rows[i][minCol]),
                                hi |-> ToNumeric(tbl.rows[i][maxCol]),
                                code |-> tbl.rows[i]["codigo_retorno"]]]]

\* The row has both bounds and a return code.
QComplete(r) == r.lo.t = "num" /\ r.hi.t = "num" /\ r.code.t = "str"

\* The row contains the measurement m, both ends included.
QHolds(r, m) == QComplete(r) /\ r.lo.n <= m /\ m <= r.hi.n

QHolding(q) == {i \in 1..Len(q.rows) : QHolds(q.rows[i], q.measure)}
QSpan(r) == r.hi.n - r.lo.n

\* C1: when two or more rows of the selected range table contain the
\* measurement, find_cable_range_code and find_shear_bolt_lug return the code
\* of a row of narrowest span, whatever the order of the rows.
C1_NarrowestSpanWins ==
    \E q \in {QView} :
        (q.usable /\ Cardinality(QHolding(q)) >= 2) =>
            \E i \in QHolding(q) :
                /\ \A j \in QHolding(q) : QSpan(q.rows[i]) <= QSpan(q.rows[j])
                /\ ret = q.rows[i].code.s

\* C2, as claimed: called with a measurement equal to the lower or the upper
\* bound of a row r with lower <= upper, find_cable_range_code returns the
\* return code of r.
C2_BoundsInclusive ==
    \E q \in {QView} :
        (q.usable /\ call.fn = "find_cable_range_code") =>
            \A i \in 1..Len(q.rows) :
                (QComplete(q.rows[i]) /\ q.rows[i].lo.n <= q.rows[i].hi.n
                    /\ (q.measure = q.rows[i].lo.n \/ q.measure = q.rows[i].hi.n))
                => ret = q.rows[i].code.s

\* C2, amended: called with a measurement equal to the lower or the upper
\* bound of a row r with lower <= upper, find_cable_range_code returns the
\* return code of r when r is the only row of the table that contains the
\* measurement.
C2_BoundsInclusiveSoleRow ==
    \E q \in {QView} :
        (q.usable /\ call.fn = "find_cable_range_code") =>
            \A i \in 1..Len(q.rows) :
                (QComplete(q.rows[i]) /\ q.rows[i].lo.n <= q.rows[i].hi.n
                    /\ (q.measure = q.rows[i].lo.n \/ q.measure = q.rows[i].hi.n)
                    /\ QHolding(q) = {i})
                => ret = q.rows[i].code.s

\* The measurement is the upper bound of the second row, wider than a point,
\* the first row does not contain it, and the second row's code came back.
C2_Witness ==
    \E q \in {QView} :
        /\ q.usable /\ call.fn = "find_cable_range_code"
        /\ Len(q.rows) = 2
        /\ QComplete(q.rows[1]) /\ ~QHolds(q.rows[1], q.measure)
        /\ QComplete(q.rows[2]) /\ q.rows[2].lo.n < q.rows[2].hi.n
        /\ q.measure = q.rows[2].hi.n
        /\ ret = q.rows[2].code.s

\* The tables with the file of the call loaded but holding no row.
WithEmptyTable ==
    [name \in DOMAIN db \cup {QName} |->
        IF name \in DOMAIN db THEN db[name]
        ELSE IF call.fn \in {"find_cable_range_code"} THEN RangeFrame(SchemaMm, <<>>)
        ELSE IF IsRangeCall \/ call.fn = "find_tsbc_lug_iec_36kv_400a"
        THEN RangeFrame(SchemaMm2, <<>>)
        ELSE CondFrame(<<>>)]

\* C5: what a resolver returns when its table is absent from db differs from
\* what it returns when the table is loaded and no row matches.
C5_MissingTableDistinct ==
    (call.fn # "none" /\ ~InDb(db, QName)) => ret # Apply(call, WithEmptyTable)

\* C5 for the five resolvers other than find_conductor_code_iec_400a.
C5_MissingTableDistinctButIec ==
    (call.fn \notin {"none", "find_conductor_code_iec_400a"} /\ ~InDb(db, QName))
        => ret # Apply(call, WithEmptyTable)

(***************************************************************************)
(* The assembled part numbers, as the claims speak of them                 *)
(***************************************************************************)

IsRender == call.fn \in {"elbow_200a", "tbody_600a", "tbody_iec_400a"}

\* The pieces of s between the occurrences of ch.
RECURSIVE SplitOn(_, _, _)
SplitOn(s, ch, piece) ==
    IF s = <<>> THEN <<piece>>
    ELSE IF Head(s) = ch THEN <<piece>> \o SplitOn(Tail(s), ch, <<>>)
    ELSE SplitOn(Tail(s), ch, piece \o <<Head(s)>>)

\* The fragments of an argument list that are neither empty nor the marker of
\* a resolver that found no row or no table, in their order.
RECURSIVE Resolved(_)
Resolved(parts) ==
    IF parts = <<>> THEN <<>>
    ELSE IF Head(parts) = <<>> \/ Head(parts) \in {NA, N_A, ER, ERR} THEN Resolved(Tail(parts))
    ELSE <<Head(parts)>> \o Resolved(Tail(parts))

RECURSIVE Glue(_)
Glue(parts) ==
    IF parts = <<>> THEN <<>>
    ELSE IF Len(parts) = 1 THEN Head(parts)
    ELSE Head(parts) \o <<"-">> \o Glue(Tail(parts))

\* C4: an assembled part number never holds "N/A", "NA", "ERR" or "ER" as a
\* fragment: every fragment whose resolver found no row or no table is left
\* out, and the base code and the other fragments appear in their order,
\* hyphen-joined.
C4_NoSentinelInPartNumber ==
    IsRender =>
        \A k \in 1..Len(ret.part_numbers) :
            /\ ret.part_numbers[k] = Glue(Resolved(ret.parts[k]))
            /\ \A i \in 1..Len(SplitOn(ret.part_numbers[k], "-", <<>>)) :
                    SplitOn(ret.part_numbers[k], "-", <<>>)[i] \notin {NA, N_A, ER, ERR}
            /\ \A i \in 1..Len(ret.codes) :
                    ret.codes[i] \in {NA, N_A, ER, ERR} =>
                        Len(Resolved(ret.parts[k])) < Len(ret.parts[k])

\* An elbow part number with the test point chosen, no cable range found and
\* the conductor code found: base, "T" and the conductor code, nothing between.
C4_Witness ==
    /\ call.fn = "elbow_200a"
    /\ Len(ret.part_numbers) = 1
    /\ ret.parts[1][1] = BaseCode
    /\ ret.parts[1][2] = <<"T">>
    /\ ret.parts[1][3] = N_A
    /\ ret.parts[1][4] = <<"0", "3">>
    /\ ret.part_numbers[1] = BaseCode \o <<"-", "T", "-", "0", "3">>

(***************************************************************************)
(* The coverage audit                                                      *)
(***************************************************************************)

\* The loop over the groups is over.
LoopDone == pc \in {"save", "done", "ZeroDivisionError"}

\* The cables of a group, as row numbers of the cable file.
CablesOf(key) ==
    {i \in 1..Len(df_cabos.rows) :
        df_cabos.rows[i]["Cable Voltage"] = Txt(key[1]) /\ df_cabos.rows[i]["S_mm2"] = Num(key[2])}
OdOf(i) == df_cabos.rows[i]["OD_iso_mm"]
Measured(key) == {i \in CablesOf(key) : OdOf(i).t = "num"}

\* The value of rank k (from 0) among the diameters of the group: fewer than
\* k + 1 cables lie below it and more than k do not lie above it.
Ranked(key, k) ==
    CHOOSE v \in {OdOf(i).n : i \in Measured(key)} :
        /\ Cardinality({i \in Measured(key) : OdOf(i).n < v}) <= k
        /\ Cardinality({i \in Measured(key) : OdOf(i).n <= v}) > k

\* Twice the median of the group, by counting.
MedianByRank(key) ==
    LET n == Cardinality(Measured(key))
    IN  IF n = 0 THEN NaN
        ELSE Num(Ranked(key, (n - 1) \div 2) + Ranked(key, n \div 2))

TermMin(i) == df_terms.rows[i]["OD Min (mm)"].n
TermMax(i) == df_terms.rows[i]["OD Max (mm)"].n

\* The terminations of the normalized class whose window holds the median e
\* records.
Matching(e) ==
    IF e.od_med2.t # "num" THEN {}
    ELSE LET class == Txt(_norm_voltage(e.key[1]))
         IN  {i \in 1..Len(df_terms.rows) :
                /\ df_terms.rows[i]["Voltage Class"] = class
                /\ 2 * TermMin(i) <= e.od_med2.n
                /\ e.od_med2.n <= 2 * TermMax(i)}

Visited == {escolhidas[k] : k \in 1..Len(escolhidas)}

\* The groups visited that no termination matches.
Unmatched == {e \in Visited : Matching(e) = {}}

\* C6: every group the audit has visited has the median of its cables'
\* diameters on record, and the termination chosen for it is one of the
\* terminations of the normalized class whose window holds that median
\* (bounds included), none of which has a narrower span, when there is one;
\* once the loop is over every group of the cable file has been visited,
\* once each.
C6_NarrowestTerminationOfMedian ==
    /\ \A e \in Visited :
        /\ e.od_med2 = MedianByRank(e.key)
        /\ \E matching \in {Matching(e)} :
            IF matching = {} THEN e.peca = 0
            ELSE /\ e.peca \in matching
                 /\ \A j \in matching :
                        TermMax(e.peca) - TermMin(e.peca) <= TermMax(j) - TermMin(j)
    /\ LoopDone =>
        /\ {e.key : e \in Visited} = GroupKeys(df_cabos)
        /\ Len(escolhidas) = Cardinality(GroupKeys(df_cabos))

\* A group of two diameters whose median lies between them, with two
\* terminations that hold it, the wider one first, the narrower one chosen.
C6_Witness ==
    \E e \in Visited :
        /\ e.peca = 2
        /\ Cardinality(Matching(e)) = 2
        /\ TermMax(1) - TermMin(1) > TermMax(2) - TermMin(2)
        /\ e.od_med2.n % 2 = 1

FindingsOf(i) ==
    {k \in 1..Len(lista_negra) : lista_negra[k]["Cable"] = df_cabos.rows[i]["Cable"]}

\* C7: in a group with a chosen termination, a cable whose own diameter is
\* below od_min has exactly one finding, Too Thin; one whose diameter is above
\* od_max has exactly one finding, Too Thick; one whose diameter is within
\* [od_min, od_max] has none.
C7_OwnDiameterDecides ==
    \A e \in Visited : e.peca # 0 =>
        \A i \in Measured(e.key) :
            /\ OdOf(i).n < TermMin(e.peca) =>
                /\ Cardinality(FindingsOf(i)) = 1
                /\ \A k \in FindingsOf(i) : lista_negra[k]["Reason"] = TooThin
            /\ OdOf(i).n > TermMax(e.peca) =>
                /\ Cardinality(FindingsOf(i)) = 1
                /\ \A k \in FindingsOf(i) : lista_negra[k]["Reason"] = TooThick
            /\ (TermMin(e.peca) <= OdOf(i).n /\ OdOf(i).n <= TermMax(e.peca)) =>
                FindingsOf(i) = {}

\* A group of three cables with a chosen termination: one too thin, one too
\* thick, one covered.
C7_Witness ==
    \E e \in Visited :
        /\ e.peca # 0
        /\ \E i, j, k \in Measured(e.key) :
            /\ OdOf(i).n < TermMin(e.peca)
            /\ OdOf(j).n > TermMax(e.peca)
            /\ TermMin(e.peca) <= OdOf(k).n /\ OdOf(k).n <= TermMax(e.peca)
            /\ FindingsOf(k) = {}
            /\ Cardinality(FindingsOf(i) \cup FindingsOf(j)) = 2

\* C8: every cable of a visited group that no termination matches has exactly
\* one finding, No Termination Found, and every finding with that reason is
\* the finding of a cable of such a group.
C8_NoTerminationFound ==
    \E unmatched \in {Unmatched} :
        /\ \A e \in unmatched :
            \A i \in CablesOf(e.key) :
                /\ Cardinality(FindingsOf(i)) = 1
                /\ \A k \in FindingsOf(i) : lista_negra[k]["Reason"] = NoTerminationFound
        /\ \A k \in 1..Len(lista_negra) : lista_negra[k]["Reason"] = NoTerminationFound =>
            \E e \in unmatched :
                /\ lista_negra[k]["Cable Voltage"] = Txt(e.key[1])
                /\ lista_negra[k]["S_mm2"] = Num(e.key[2])
                /\ \E i \in CablesOf(e.key) : k \in FindingsOf(i)

\* A group of two cables that no termination matches next to a group that has
\* a termination.
C8_Witness ==
    /\ \E e \in Unmatched : Cardinality(CablesOf(e.key)) = 2
    /\ Visited # Unmatched
    /\ Cardinality({k \in 1..Len(lista_negra) :
                       lista_negra[k]["Reason"] = NoTerminationFound}) = 2

\* C9: at the end of an audit of a cable file that has rows, the total is the
\* number of rows, the covered count is the total less the number of
\* findings, the rate is covered / total * 100, and 0 <= covered <= total,
\* 0 <= rate <= 100.
C9_Totals ==
    (pc \in {"save", "done"} /\ Len(data.cabos.df.rows) > 0) =>
        /\ total_linhas_db = Len(data.cabos.df.rows)
        /\ total_erros = Len(lista_negra)
        /\ total_acertos = total_linhas_db - Len(lista_negra)
        /\ taxa_acerto[2] > 0
        /\ taxa_acerto[1] * total_linhas_db = total_acertos * 100 * taxa_acerto[2]
        /\ 0 <= total_acertos /\ total_acertos <= total_linhas_db
        /\ 0 <= taxa_acerto[1] /\ taxa_acerto[1] <= 100 * taxa_acerto[2]

\* An audit that ends with two of three cables covered.
C9_Witness ==
    /\ pc = "done"
    /\ total_linhas_db = 3
    /\ total_acertos = 2
    /\ Len(report.rows) = 1

\* C10: an audit of a cable file without rows, both files read, does not
\* stop at the division of the rate.
C10_EmptyDatabaseCompletes ==
    (pc # "start" /\ data.cabos.readable /\ data.terms.readable
        /\ Len(data.cabos.df.rows) = 0) => pc # "ZeroDivisionError"


\* C11: every run of run_audit ends with the report file written: a run that
\* has stopped, by returning, by raising or by reaching the end of the
\* function, has written problematic_cables.csv with the five columns, and
\* the report of a run without findings is the header alone.
C11_ReportAlwaysWritten ==
    pc \in {"returned", "ZeroDivisionError", "done"} =>
        /\ report # Unset
        /\ report.cols = ReportCols
        /\ (lista_negra = <<>> => report.rows = <<>>)

\* C12: a termination table that cannot be loaded does not abort the audit:
\* with a readable cable database the run goes through every group, records
\* each cable of the database as a NoTerminationFound finding and writes the
\* summary and the report.
C12_MissingTerminationsTolerated ==
    (data.cabos.readable /\ ~data.terms.readable /\ pc # "start") =>
        /\ pc # "returned"
        /\ (pc = "done" =>
               /\ Len(lista_negra) = Len(data.cabos.df.rows)
               /\ \A k \in 1..Len(lista_negra) :
                     lista_negra[k]["Reason"] = NoTerminationFound
               /\ report # Unset)

\* C13: the assembler joins without a separator when so configured: the part
\* number of the base code "15-LE200" with the fragments "T", a marker of a
\* resolver that found nothing, and "03" is "15-LE200T03", the base code
\* followed at once by the fragments that were resolved.
C13_DirectConcatenation ==
    IsRender =>
        \A k \in 1..Len(ret.part_numbers) :
            (/\ Len(ret.parts[k]) = 5
             /\ ret.parts[k][1] = BaseCode
             /\ ret.parts[k][2] = <<"T">>
             /\ ret.parts[k][3] \in Sentinels
             /\ ret.parts[k][4] = <<"0", "3">>
             /\ ret.parts[k][5] = <<>>)
            => ret.part_numbers[k] = BaseCode \o <<"T", "0", "3">>

\* C14: a measurement that falls in the gap between two rows of a range
\* table, above the upper bound of the one and below the lower bound of the
\* other, and that no row of the table contains, makes find_cable_range_code
\* return "N/A", never the code of either neighbour.
C14_GapIsNotFound ==
    \E q \in {QView} :
        (q.usable /\ call.fn = "find_cable_range_code" /\ QHolding(q) = {}) =>
            \A i, j \in 1..Len(q.rows) :
                (/\ QComplete(q.rows[i]) /\ QComplete(q.rows[j])
                 /\ q.rows[i].lo.n <= q.rows[i].hi.n
                 /\ q.rows[i].hi.n < q.measure
                 /\ q.measure < q.rows[j].lo.n
                 /\ q.rows[j].lo.n <= q.rows[j].hi.n)
                => /\ ret = N_A
                   /\ ret # q.rows[i].code.s
                   /\ ret # q.rows[j].code.s

\* A table of two disjoint rows, the measurement between them, and "N/A"
\* returned.
C14_Witness ==
    \E q \in {QView} :
        /\ q.usable /\ call.fn = "find_cable_range_code"
        /\ Len(q.rows) = 2
        /\ QComplete(q.rows[1]) /\ QComplete(q.rows[2])
        /\ q.rows[1].lo.n <= q.rows[1].hi.n
        /\ q.rows[1].hi.n < q.measure
        /\ q.measure < q.rows[2].lo.n
        /\ q.rows[2].lo.n <= q.rows[2].hi.n
        /\ ret = N_A

(***************************************************************************)
(* The conductor codes                                                     *)
(***************************************************************************)

IsCondCall == call.fn \in {"find_conductor_code_200a", "find_compression_lug_600a"}

\* The rows of the call's table with the call's conductor type and section.
CondMatches ==
    IF IsCondCall /\ InDb(db, QName)
    THEN {k \in 1..Len(db[QName].rows) :
            /\ db[QName].rows[k]["tipo_condutor"] = Txt(call.cond_type)
            /\ db[QName].rows[k]["secao_mm2"] = Num(call.cond_size)}
    ELSE {}

\* The width of the numeral of the call's family, and the least number that
\* does not fit in it.
CondWidth == IF call.fn = "find_conductor_code_200a" THEN 2 ELSE 4
CondLimit == IF call.fn = "find_conductor_code_200a" THEN 100 ELSE 10000

\* ret is the numeral of n in exactly CondWidth digits.
IsPadded(n) ==
    /\ Len(ret) = CondWidth
    /\ \A i \in 1..Len(ret) : IsDigit(ret[i])
    /\ ParseDigits(ret, 0) = n

\* C15, as claimed: for every matching row with an integer return code,
\* find_conductor_code_200a returns exactly 2 digits and
\* find_compression_lug_600a exactly 4 digits, of that code's value.
C15_FixedWidth ==
    \A k \in CondMatches :
        db[QName].rows[k]["codigo_retorno"].t = "num" =>
            IsPadded(db[QName].rows[k]["codigo_retorno"].n)

\* C15, amended: when the first matching row holds an integer return code
\* that fits the family's width (below 100 for find_conductor_code_200a,
\* below 10000 for find_compression_lug_600a), the result is that code in
\* exactly 2, respectively 4, zero-padded digits.
C15_FixedWidthWhenItFits ==
    \E matches \in {CondMatches} :
        matches # {} =>
            \E code \in {db[QName].rows[FirstRow(matches)]["codigo_retorno"]} :
                (code.t = "num" /\ code.n < CondLimit) => IsPadded(code.n)

\* The copper row of section 1 holds the code 3, and the 200 A resolver
\* returned "03".
C15_Witness ==
    /\ call.fn = "find_conductor_code_200a"
    /\ CondMatches # {}
    /\ db[QName].rows[FirstRow(CondMatches)]["codigo_retorno"] = Num(3)
    /\ ret = <<"0", "3">>

(***************************************************************************)
(* The voltage classes of the audit and of the termination selector        *)
(***************************************************************************)

\* C18: for every cable voltage label of TENS_MAP, _norm_voltage yields the
\* termination class that TENS_MAP gives the label.
C18_NormAgreesWithTensMap ==
    (v_ret # Unset /\ v_str \in DOMAIN TENS_MAP) => v_ret = TENS_MAP[v_str]

\* C19: once the loop is over, every cable of the database, whatever it
\* lacks, is in the findings or lies, by its own diameter, within the window
\* of the termination chosen for its group, and every cable counted in the
\* total belongs to exactly one group visited.
C19_CoveredMeansInTolerance ==
    LoopDone =>
        \A i \in 1..total_linhas_db :
            /\ Cardinality({e \in Visited : i \in CablesOf(e.key)}) = 1
            /\ \/ FindingsOf(i) # {}
               \/ \E e \in Visited :
                    /\ i \in CablesOf(e.key)
                    /\ e.peca # 0
                    /\ OdOf(i).t = "num"
                    /\ TermMin(e.peca) <= OdOf(i).n
                    /\ OdOf(i).n <= TermMax(e.peca)

\* C20: in the 200 A elbow the Z fragment of the part number is the one the
\* label of the connector material names: "C" for "Copper (Z = C)", "B" for
\* "Bi-metal (Z = B)", none for "None".
C20_MaterialDecidesZ ==
    (call.fn = "elbow_200a" /\ Len(ret.parts) = 1) =>
        ret.parts[1][5] = (CASE call.connector_material = OptCopper -> <<"C">>
                             [] call.connector_material = OptBimetal -> <<"B">>
                             [] OTHER -> <<>>)

(***************************************************************************)
(* The reference data under use                                            *)
(***************************************************************************)

\* C16: whatever calls of find_cable_range_code, find_shear_bolt_lug,
\* find_tsbc_lug_iec_36kv_400a, find_conductor_code_iec_400a and
\* suggest_termination_connector a session has made, its tables are the
\* tables as loaded, rows, column names and row order, and the result of the
\* last call is the result of that call on the tables as loaded; and whatever
\* groups run_audit has gone through, df_cabos and df_terms are the frames
\* as read.
C16_ReferenceDataUnchanged ==
    /\ pc = "idle" =>
          \E tables \in {db} :
              /\ loaded = tables
              /\ call # NoCall => ret = Apply(call, tables)
    /\ pc \in {"loop", "save", "done", "ZeroDivisionError"} =>
          /\ df_terms = data.terms.df
          /\ df_cabos = data.cabos.df

\* A session whose diameter range table names its columns by aliases and has
\* found a code in it, the table in memory still under its aliases.
C16_Witness ==
    /\ pc = "idle"
    /\ call.fn = "find_cable_range_code"
    /\ call.table_basename = ""
    /\ ret \notin {ERR, N_A}
    /\ InDb(loaded, "opcoes_range_cabo_15kv")
    /\ "min (mm)" \in ColSet(loaded["opcoes_range_cabo_15kv"])
    /\ RangeInPlace(loaded["opcoes_range_cabo_15kv"], None) # loaded["opcoes_range_cabo_15kv"]

Searched(st) == "term_searched" \in DOMAIN st /\ st.term_searched

\* The query signature of the run whose inputs are c (line 757).
RunSignature(c) == Signature(c.env_choice, c.cabo_tensao, c.know_iso, c.s_mm2, c.d_iso)

\* C21: across reruns of the termination selector, a run reaches the results
\* only if Search was pressed in it, or term_searched was already set by an
\* earlier run, the stored query signature equals this run's and Clear was not
\* pressed; term_searched stays set only the same way (a run that stops at the
\* "Could not estimate" warning computes no signature and shows nothing); a
\* run whose signature differs from the stored one and has no Search press
\* leaves term_searched False; and the stored signature is always that of the
\* last run that computed one.
C21_ResultsOnlyAfterSearch ==
    [][LET c == call'
           carried == /\ Searched(session_state)
                      /\ session_state.term_query_signature = RunSignature(c)
                      /\ ~c.reset
       IN  /\ ret'.shown => ~ret'.early /\ Searched(session_state') /\ (c.search \/ carried)
           /\ Searched(session_state') =>
                \/ c.search
                \/ ret'.early /\ Searched(session_state)
                \/ ~ret'.early /\ carried
           /\ ~ret'.early => session_state'.term_query_signature = RunSignature(c)
           /\ ( /\ ~ret'.early
                /\ ~c.search
                /\ "term_query_signature" \in DOMAIN session_state
                /\ session_state.term_query_signature # RunSignature(c) )
              => ~session_state'.term_searched]_vars

\* A run shows terminations without a Search press: the flag was carried over
\* from the run before it, whose signature was the same.
C21_Witness ==
    /\ call # NoCall
    /\ call.fn = "render_termination_selector"
    /\ ~call.search
    /\ ret.shown
    /\ ret.matches # {}
    /\ session_state.term_searched
    /\ session_state.term_query_signature = RunSignature(call)

=============================================================================
